---------------------------- MODULE Spec2Model ----------------------------
(***************************************************************************)
(* State-machine model of the ammv2 program (programs/ammv2/src).          *)
(*                                                                         *)
(* Two kinds of pool are modelled, as in the source:                       *)
(*   - the token-vault pool (instructions/liquidity.rs, swap.rs): both     *)
(*     legs are balance records (vault0, vault1) of the custody service;   *)
(*   - the native pool (instructions/native_pool.rs): one leg is the raw   *)
(*     balance of the custody account pool_pda, tracked by                 *)
(*     pool_state.native_reserve, the other is token_vault.                *)
(*                                                                         *)
(* One instruction is one atomic step (the ledger platform reverts every   *)
(* effect of an instruction that returns an error or aborts), so a         *)
(* rejected call changes nothing but the bookkeeping variables `last` and  *)
(* `steps`.                                                                *)
(***************************************************************************)
EXTENDS Integers, Sequences, FiniteSets, TLC

VARIABLES
    pool_state,            \* state.rs PoolState
    vault,                 \* token-vault pool: amounts of vault0 / vault1
    user,                  \* token-vault pool: amounts of each caller's user0 / user1
    user_pool_ata,         \* token-vault pool: share balance of each caller
    protocol_treasury_ata, \* amount held by the treasury's wrapped-native record
    native_mints,          \* the mints of the token-vault pool that are the native mint
    pool_pda,              \* native pool: balance of the custody account
    token_vault,           \* native pool: amount of the token vault
    user_lamports,         \* native pool: native balance of each caller
    user_token_account,    \* native pool: token balance of each caller
    user_lp_account,       \* native pool: share balance (pool's lp_mint) of each caller
    treasury_lamports,     \* native balance of pool_state.protocol_treasury
    rent,                  \* Rent sysvar: minimum balances of the two account sizes
    vault_account,         \* the vault accounts as the ledger holds them
    pool_state_exists,     \* whether the pool_state account has been created
    payer_lamports,        \* native balance of the payer of pool creation
    applied,               \* provisioning steps committed on each vault account
    calc,                  \* inputs and results of the swap arithmetic on its own
    codec,                 \* a PoolState, the account data written from it, and what is read back
    arith,                 \* one arithmetic site at the width of the machine integers
    last,                  \* the last instruction: its inputs, result and computed values
    steps                  \* number of instructions issued so far

tokenVars == <<vault, user, user_pool_ata, protocol_treasury_ata, native_mints>>

nativeVars == <<pool_pda, token_vault, user_lamports, user_token_account,
                user_lp_account, treasury_lamports, rent>>

initVars == <<vault_account, pool_state_exists, payer_lamports, applied>>

vars == <<pool_state, tokenVars, nativeVars, initVars, calc, codec, arith, last, steps>>

-----------------------------------------------------------------------------
(* Bounds of the model.                                                    *)

\* instructions issued in one behaviour
MaxSteps == 2

\* what each caller holds of each asset at the start (token-vault pool)
UserFunds == 1500

\* what each caller holds of the native asset and of the token (native pool)
NativeUserFunds == 25000

Users == {"alice", "bob"}

\* the zero address: Pubkey::default()
DefaultPubkey == "default"

\* the address the pool is configured to route protocol fees to
TreasuryKey == "treasury"

-----------------------------------------------------------------------------
(* Results of an instruction.                                              *)

Ok == "Ok"

\* an unwrap() on None aborts the instruction
Panic == "Panic"

\* the custody service (token program) refused a transfer, mint or burn
CpiError == "CpiError"

Res(e, v) == [err |-> e, v |-> v]

Min(a, b) == IF a <= b THEN a ELSE b


-----------------------------------------------------------------------------
(* Program constants.                                                      *)

\* protocol_fee_bps is a fraction of 10000
BpsDenominator == 10000

\* shares withheld from the first native deposit
MinimumLiquidity == 1000

-----------------------------------------------------------------------------
(* Swap arithmetic of the token-vault pool (swap.rs).                      *)
(* All values are u64 widened to u128; the model keeps them far below      *)
(* either width, so the only failures left are divisions by zero and       *)
(* subtractions below zero.                                                *)

\* lp_fee_amount, amount_in_minus_fees, invariant, new_src_vault, new_dst_vault,
\* output_amount
swap_output_amount(amount_in, src_vault_amount, dst_vault_amount, fee_numerator, fee_denominator) ==
    IF fee_denominator = 0
    THEN Res(Panic, 0)                \* checked_div(0).unwrap()
    ELSE LET lp_fee_amount == (amount_in * fee_numerator) \div fee_denominator
             amount_in_minus_fees == amount_in - lp_fee_amount
             invariant == src_vault_amount * dst_vault_amount
             new_src_vault == src_vault_amount + amount_in_minus_fees
         IN  IF lp_fee_amount > amount_in \/ new_src_vault = 0
             THEN Res(Panic, 0)       \* subtraction below zero; checked_div(0).unwrap()
             ELSE LET new_dst_vault == invariant \div new_src_vault
                  IN  IF new_dst_vault > dst_vault_amount
                      THEN Res(Panic, 0)          \* checked_sub(..).unwrap()
                      ELSE Res(Ok, dst_vault_amount - new_dst_vault)

\* mutant: the fee taken as a fraction of 1000
protocol_fee_xnt_permille(protocol_treasury, protocol_fee_bps, xnt_amount_for_fee) ==
    IF protocol_treasury # DefaultPubkey /\ protocol_fee_bps > 0 /\ xnt_amount_for_fee > 0
    THEN (xnt_amount_for_fee * protocol_fee_bps) \div 1000
    ELSE 0

\* protocol_fee_xnt of swap
protocol_fee_xnt(protocol_treasury, protocol_fee_bps, xnt_amount_for_fee) ==
    IF protocol_treasury # DefaultPubkey /\ protocol_fee_bps > 0 /\ xnt_amount_for_fee > 0
    THEN (xnt_amount_for_fee * protocol_fee_bps) \div BpsDenominator
    ELSE 0

-----------------------------------------------------------------------------
(* Swap arithmetic of the native pool (native_pool.rs).                    *)

calculate_swap_output(amount_in, reserve_in, reserve_out, fee_numerator, fee_denominator) ==
    IF ~(reserve_in > 0 /\ reserve_out > 0)
    THEN Res("InsufficientLiquidity", 0)
    ELSE IF fee_numerator > fee_denominator
    THEN Res(Panic, 0)                \* fee_denominator - fee_numerator below zero
    ELSE IF fee_denominator = 0
    THEN Res("MathOverflow", 0)       \* checked_div(0)
    ELSE LET amount_in_with_fee ==
                 (amount_in * (fee_denominator - fee_numerator)) \div fee_denominator
             numerator == amount_in_with_fee * reserve_out
             denominator == reserve_in + amount_in_with_fee
         IN  Res(Ok, numerator \div denominator)

\* protocol_fee_xnt of swap_native
native_protocol_fee_xnt(protocol_treasury, protocol_fee_bps, xnt_amount_for_fee) ==
    IF protocol_treasury # DefaultPubkey /\ protocol_fee_bps > 0 /\ xnt_amount_for_fee > 0
    THEN (xnt_amount_for_fee * protocol_fee_bps) \div BpsDenominator
    ELSE 0

RECURSIVE sqrt_loop(_, _, _)
\* the while loop of integer_sqrt: x, y and self
sqrt_loop(x, y, self) ==
    IF y < x THEN sqrt_loop(y, (y + self \div y) \div 2, self) ELSE x

integer_sqrt(self) ==
    IF self = 0 THEN 0 ELSE sqrt_loop(self, (self + 1) \div 2, self)

-----------------------------------------------------------------------------
(* Bookkeeping of the last instruction.                                    *)

NoLast ==
    [op |-> "none", res |-> Ok, caller |-> "none",
     amount_a |-> 0, amount_b |-> 0, min_out |-> 0,
     src |-> 0, ata |-> "none", lp_mint |-> "none", is_xnt_to_token |-> FALSE,
     reserve_in |-> 0, reserve_out |-> 0, tracked |-> 0, args |-> <<>>,
     output_amount |-> 0, protocol_fee_xnt |-> 0,
     final_output_amount |-> 0, final_amount_in |-> 0,
     fee_transfer |-> FALSE, minted |-> 0, amount0 |-> 0, amount1 |-> 0,
     issued |-> {}, order |-> <<>>, token_vault |-> "none"]

Merge(r, s) == [f \in DOMAIN r \cup DOMAIN s |-> IF f \in DOMAIN s THEN s[f] ELSE r[f]]

\* a call that was rejected: nothing changes but the bookkeeping
Rejected(rec) ==
    /\ last' = Merge(NoLast, rec)
    /\ steps' = steps + 1
    /\ UNCHANGED <<pool_state, tokenVars, nativeVars, calc, codec, arith, initVars>>

-----------------------------------------------------------------------------
(* The token-vault pool: liquidity.rs and swap.rs.                         *)

Mints == {0, 1}

\* the amounts a caller may name
LiqAmounts0 == {100, 1000}

LiqAmounts1 == {50, 1000}

BurnAmounts == {75, 1000}

SwapAmounts == {100}

MinAmountsOut == {0, 85}

\* what the caller may supply as protocol_treasury_ata: an account with no data, an
\* account of another program, the treasury's record of the native mint, or the
\* caller's own record of the native mint
TreasuryRecords == {"empty", "foreign", "treasury", "own"}

\* mutant: the first deposit mints the sum of the two amounts
add_liquidity_amounts_unhalved(amount_liq0, amount_liq1, vault_balance0, vault_balance1, total_amount_minted) ==
    IF vault_balance0 = 0 /\ vault_balance1 = 0
    THEN [err |-> Ok, deposit1 |-> amount_liq1, amount_to_mint |-> amount_liq0 + amount_liq1]
    ELSE LET exchange10 == vault_balance1 \div vault_balance0
             amount_deposit_1 == amount_liq0 * exchange10
         IN  IF amount_deposit_1 > amount_liq1
             THEN [err |-> "NotEnoughBalance", deposit1 |-> 0, amount_to_mint |-> 0]
             ELSE [err |-> Ok, deposit1 |-> amount_deposit_1,
                   amount_to_mint |->
                       (amount_deposit_1 * total_amount_minted) \div vault_balance1]

\* mutant: a later deposit takes the requested amount of asset 1
add_liquidity_amounts_as_requested(amount_liq0, amount_liq1, vault_balance0, vault_balance1, total_amount_minted) ==
    IF vault_balance0 = 0 /\ vault_balance1 = 0
    THEN [err |-> Ok, deposit1 |-> amount_liq1,
          amount_to_mint |-> (amount_liq0 + amount_liq1) \div 2]
    ELSE [err |-> Ok, deposit1 |-> amount_liq1,
          amount_to_mint |-> (amount_liq1 * total_amount_minted) \div vault_balance1]

\* deposit1 and amount_to_mint of add_liquidity
add_liquidity_amounts(amount_liq0, amount_liq1, vault_balance0, vault_balance1, total_amount_minted) ==
    IF vault_balance0 = 0 /\ vault_balance1 = 0
    THEN [err |-> Ok, deposit1 |-> amount_liq1,
          amount_to_mint |-> (amount_liq0 + amount_liq1) \div 2]
    ELSE IF vault_balance0 = 0
    THEN [err |-> Panic, deposit1 |-> 0, amount_to_mint |-> 0]   \* checked_div(0).unwrap()
    ELSE LET exchange10 == vault_balance1 \div vault_balance0
             amount_deposit_1 == amount_liq0 * exchange10
         IN  IF amount_deposit_1 > amount_liq1
             THEN [err |-> "NotEnoughBalance", deposit1 |-> 0, amount_to_mint |-> 0]
             ELSE IF vault_balance1 = 0
             THEN [err |-> Panic, deposit1 |-> 0, amount_to_mint |-> 0]
             ELSE [err |-> Ok, deposit1 |-> amount_deposit_1,
                   amount_to_mint |->
                       (amount_deposit_1 * total_amount_minted) \div vault_balance1]

add_liquidity(owner, amount_liq0, amount_liq1) ==
    LET rec == [op |-> "add_liquidity", caller |-> owner,
                amount_a |-> amount_liq0, amount_b |-> amount_liq1]
        r == add_liquidity_amounts(amount_liq0, amount_liq1, vault[0], vault[1],
                                   pool_state.total_amount_minted)
    IN
    /\ steps < MaxSteps
    /\ ~pool_state.is_native_pool
    /\ IF amount_liq0 > user[owner][0] \/ amount_liq1 > user[owner][1]
       THEN Rejected(Merge(rec, [res |-> "NotEnoughBalance"]))
       ELSE IF r.err # Ok
       THEN Rejected(Merge(rec, [res |-> r.err]))
       ELSE IF ~(r.amount_to_mint > 0)
       THEN Rejected(Merge(rec, [res |-> "NoPoolMintOutput"]))
       ELSE /\ pool_state' = [pool_state EXCEPT
                                 !.total_amount_minted = @ + r.amount_to_mint]
            /\ user_pool_ata' = [user_pool_ata EXCEPT ![owner] = @ + r.amount_to_mint]
            /\ user' = [user EXCEPT ![owner][0] = @ - amount_liq0,
                                    ![owner][1] = @ - r.deposit1]
            /\ vault' = [vault EXCEPT ![0] = @ + amount_liq0, ![1] = @ + r.deposit1]
            /\ last' = Merge(NoLast, Merge(rec, [res |-> Ok, minted |-> r.amount_to_mint,
                                   amount0 |-> amount_liq0, amount1 |-> r.deposit1,
                                   order |-> <<"total_amount_minted", "mint_to",
                                               "transfer0", "transfer1">>]))
            /\ steps' = steps + 1
            /\ UNCHANGED <<protocol_treasury_ata, native_mints, nativeVars, calc, codec, arith, initVars>>

remove_liquidity(owner, burn_amount) ==
    LET rec == [op |-> "remove_liquidity", caller |-> owner, amount_a |-> burn_amount]
        total == pool_state.total_amount_minted
    IN
    /\ steps < MaxSteps
    /\ ~pool_state.is_native_pool
    /\ IF burn_amount > user_pool_ata[owner]
       THEN Rejected(Merge(rec, [res |-> "NotEnoughBalance"]))
       ELSE IF ~(total >= burn_amount)
       THEN Rejected(Merge(rec, [res |-> "BurnTooMuch"]))
       ELSE IF total = 0
       THEN Rejected(Merge(rec, [res |-> Panic]))       \* checked_div(0).unwrap()
       ELSE LET amount0 == (burn_amount * vault[0]) \div total
                amount1 == (burn_amount * vault[1]) \div total
            IN  /\ vault' = [vault EXCEPT ![0] = @ - amount0, ![1] = @ - amount1]
                /\ user' = [user EXCEPT ![owner][0] = @ + amount0,
                                        ![owner][1] = @ + amount1]
                /\ user_pool_ata' = [user_pool_ata EXCEPT ![owner] = @ - burn_amount]
                /\ pool_state' = [pool_state EXCEPT
                                     !.total_amount_minted = @ - burn_amount]
                /\ last' = Merge(NoLast, Merge(rec, [res |-> Ok, amount0 |-> amount0,
                                                     amount1 |-> amount1]))
                /\ steps' = steps + 1
                /\ UNCHANGED <<protocol_treasury_ata, native_mints, nativeVars, calc, codec, arith, initVars>>

\* mutant: the minimum compared with the amount before the protocol fee
enough_out_before_fee(output_amount, final_output_amount, min_amount_out) ==
    output_amount >= min_amount_out

\* require!(final_output_amount >= min_amount_out) of swap and
\* require!(final_amount_out >= min_amount_out) of swap_native
enough_out(output_amount, final_output_amount, min_amount_out) ==
    final_output_amount >= min_amount_out

\* treasury_ata_valid of swap: the supplied record holds data and is owned by
\* token_program
treasury_ata_valid(protocol_treasury, fee, ata) ==
    /\ protocol_treasury # DefaultPubkey
    /\ fee > 0
    /\ ata # "empty"
    /\ ata # "foreign"

\* the custody service credits a record only if it is one of its own balance records
TransferAccepted(ata) == ata \in {"treasury", "own"}

\* swap(amount_in, min_amount_out) by `owner`, with user_src / vault_src of mint `src`
\* and user_dst / vault_dst of the other mint, and `ata` as protocol_treasury_ata
swap(owner, src, amount_in, min_amount_out, ata) ==
    LET dst == 1 - src
        rec == [op |-> "swap", caller |-> owner, src |-> src, amount_a |-> amount_in,
                min_out |-> min_amount_out, ata |-> ata]
        src_vault_amount == vault[src]
        dst_vault_amount == vault[dst]
        is_input_xnt == src \in native_mints
        is_output_xnt == dst \in native_mints
        o == swap_output_amount(amount_in, src_vault_amount, dst_vault_amount,
                                pool_state.fee_numerator, pool_state.fee_denominator)
        output_amount == o.v
        xnt_amount_for_fee == IF is_input_xnt THEN amount_in
                              ELSE IF is_output_xnt THEN output_amount ELSE 0
        fee == protocol_fee_xnt(pool_state.protocol_treasury,
                                pool_state.protocol_fee_bps, xnt_amount_for_fee)
        valid == treasury_ata_valid(pool_state.protocol_treasury, fee, ata)
        final_output_amount == IF is_output_xnt /\ valid
                               THEN output_amount - fee ELSE output_amount
        final_amount_to_vault == IF is_input_xnt /\ valid
                                 THEN amount_in - fee ELSE amount_in
        fee_from_output == is_output_xnt /\ fee > 0
                           /\ pool_state.protocol_treasury # DefaultPubkey
        fee_from_input == is_input_xnt /\ fee > 0
                          /\ pool_state.protocol_treasury # DefaultPubkey
        fee_transfer == fee_from_output \/ fee_from_input
        computed == [reserve_in |-> src_vault_amount, reserve_out |-> dst_vault_amount,
                     output_amount |-> output_amount, protocol_fee_xnt |-> fee,
                     final_output_amount |-> final_output_amount,
                     final_amount_in |-> final_amount_to_vault]
        \* the balances after the transfers, in the order the code issues them
        vault_1 == [vault EXCEPT ![dst] = @ - final_output_amount]
        user_1 == [user EXCEPT ![owner][dst] = @ + final_output_amount]
        vault_2 == IF fee_from_output THEN [vault_1 EXCEPT ![dst] = @ - fee] ELSE vault_1
        user_2 == IF fee_from_input THEN [user_1 EXCEPT ![owner][src] = @ - fee] ELSE user_1
        user_3 == IF fee_transfer /\ ata = "own"
                  THEN [user_2 EXCEPT ![owner][IF fee_from_output THEN dst ELSE src] =
                                          @ + fee]
                  ELSE user_2
        user_4 == [user_3 EXCEPT ![owner][src] = @ - final_amount_to_vault]
        vault_3 == [vault_2 EXCEPT ![src] = @ + final_amount_to_vault]
    IN
    /\ steps < MaxSteps
    /\ ~pool_state.is_native_pool
    /\ IF ~(user[owner][src] >= amount_in)
       THEN Rejected(Merge(rec, [res |-> "NotEnoughBalance"]))
       ELSE IF o.err # Ok
       THEN Rejected(Merge(rec, [res |-> o.err]))
       ELSE IF fee > output_amount /\ is_output_xnt /\ valid
       THEN Rejected(Merge(rec, [res |-> Panic]))        \* checked_sub(..).unwrap()
       ELSE IF ~enough_out(output_amount, final_output_amount, min_amount_out)
       THEN Rejected(Merge(rec, Merge(computed, [res |-> "NotEnoughOut"])))
       ELSE IF fee_transfer /\ ~TransferAccepted(ata)
       THEN Rejected(Merge(rec, Merge(computed,
                                      [res |-> CpiError, fee_transfer |-> TRUE,
                                       issued |-> {"output_transfer"}])))
       ELSE IF vault_2[dst] < 0 \/ user_2[owner][src] < 0 \/ user_4[owner][src] < 0
       THEN Rejected(Merge(rec, Merge(computed,
                                      [res |-> CpiError, fee_transfer |-> fee_transfer,
                                       issued |-> {"output_transfer"}])))
       ELSE /\ vault' = vault_3
            /\ user' = user_4
            /\ protocol_treasury_ata' =
                   IF fee_transfer /\ ata = "treasury"
                   THEN protocol_treasury_ata + fee ELSE protocol_treasury_ata
            /\ last' = Merge(NoLast, Merge(rec, Merge(computed,
                                   [res |-> Ok, fee_transfer |-> fee_transfer])))
            /\ steps' = steps + 1
            /\ UNCHANGED <<pool_state, user_pool_ata, native_mints, nativeVars, calc, codec, arith, initVars>>

-----------------------------------------------------------------------------
(* The native pool: native_pool.rs.                                        *)

XntAmounts == {100, 1000, 10000}

TokenAmounts == {1000, 10000}

MinLpTokens == {0, 9500}

LpAmounts == {2162, 9000}

NativeSwapAmounts == {1000}

NativeMinAmountsOut == {0, 850}

\* what the caller may supply as lp_mint: the mint created with the pool, or a mint
\* the caller created, holds and put under the pool authority
LpMints == {"pool", "forged"}

\* what the caller may supply as token_vault, an account the program takes
\* unchecked: the vault created with the pool, or the caller's own token account
\* (the one also supplied as user_token_account, with no delegate set on it)
TokenVaults == {"pool", "own"}

\* the amount read from bytes 64..72 of the supplied token_vault
supplied_vault_balance(u, tv) ==
    IF tv = "pool" THEN token_vault ELSE user_token_account[u]

\* Rent::minimum_balance of the sizes the program asks for: the data of pool_pda
\* (none), the data of the pool_state account and the 165 bytes of a token account
RentSchedules == {[pool_pda |-> 950, pool_state |-> 1500, token_account |-> 2000]}

\* lp_to_mint of add_native_liquidity
native_lp_to_mint(xnt_amount, token_amount, total_amount_minted, native_reserve, token_vault_balance) ==
    IF total_amount_minted = 0
    THEN LET root == integer_sqrt(xnt_amount * token_amount)
         IN  IF root < MinimumLiquidity
             THEN Res("InsufficientLiquidity", 0)        \* checked_sub(1000)
             ELSE Res(Ok, root - MinimumLiquidity)
    ELSE IF native_reserve = 0 \/ token_vault_balance = 0
    THEN Res("MathOverflow", 0)                          \* checked_div(0)
    ELSE LET lp_from_xnt == (xnt_amount * total_amount_minted) \div native_reserve
             lp_from_token == (token_amount * total_amount_minted) \div token_vault_balance
         IN  Res(Ok, Min(lp_from_xnt, lp_from_token))

add_native_liquidity(u, xnt_amount, token_amount, min_lp_tokens, lp_mint, tv) ==
    LET rec == [op |-> "add_native_liquidity", caller |-> u, amount_a |-> xnt_amount,
                amount_b |-> token_amount, min_out |-> min_lp_tokens, lp_mint |-> lp_mint,
                token_vault |-> tv]
        r == native_lp_to_mint(xnt_amount, token_amount, pool_state.total_amount_minted,
                               pool_state.native_reserve, supplied_vault_balance(u, tv))
        lp_to_mint == r.v
    IN
    /\ steps < MaxSteps
    /\ pool_state.is_native_pool
    /\ IF ~(xnt_amount > 0 /\ token_amount > 0)
       THEN Rejected(Merge(rec, [res |-> "InvalidInput"]))
       ELSE IF r.err # Ok
       THEN Rejected(Merge(rec, [res |-> r.err]))
       ELSE IF ~(lp_to_mint >= min_lp_tokens)
       THEN Rejected(Merge(rec, [res |-> "SlippageExceeded", minted |-> lp_to_mint]))
       ELSE IF user_lamports[u] < xnt_amount \/ user_token_account[u] < token_amount
       THEN Rejected(Merge(rec, [res |-> CpiError,
                                 issued |-> IF user_lamports[u] < xnt_amount THEN {}
                                            ELSE {"xnt_transfer"}]))
       ELSE /\ user_lamports' = [user_lamports EXCEPT ![u] = @ - xnt_amount]
            /\ pool_pda' = pool_pda + xnt_amount
            \* a transfer from an account to itself moves nothing
            /\ user_token_account' = IF tv = "pool"
                                     THEN [user_token_account EXCEPT ![u] = @ - token_amount]
                                     ELSE user_token_account
            /\ token_vault' = IF tv = "pool" THEN token_vault + token_amount
                              ELSE token_vault
            /\ user_lp_account' = IF lp_mint = "pool"
                                  THEN [user_lp_account EXCEPT ![u] = @ + lp_to_mint]
                                  ELSE user_lp_account
            /\ pool_state' = [pool_state EXCEPT
                                 !.native_reserve = @ + xnt_amount,
                                 !.total_amount_minted = @ + lp_to_mint]
            /\ last' = Merge(NoLast, Merge(rec, [res |-> Ok, minted |-> lp_to_mint,
                                   amount0 |-> xnt_amount, amount1 |-> token_amount,
                                   order |-> <<"xnt_transfer", "token_transfer", "mint_to",
                                               "total_amount_minted", "native_reserve">>]))
            /\ steps' = steps + 1
            /\ UNCHANGED <<tokenVars, treasury_lamports, rent, calc, codec, arith, initVars>>

\* mutant: the native amount paid out is the share of the whole balance of pool_pda
remove_native_liquidity_by_balance(u, lp_amount, lp_mint, tv) ==
    LET rec == [op |-> "remove_native_liquidity", caller |-> u, amount_a |-> lp_amount,
                lp_mint |-> lp_mint, token_vault |-> tv]
        total_supply == pool_state.total_amount_minted
        xnt_amount == (pool_pda * lp_amount) \div total_supply
        token_amount == (supplied_vault_balance(u, tv) * lp_amount) \div total_supply
    IN
    /\ steps < MaxSteps
    /\ pool_state.is_native_pool
    /\ IF ~(lp_amount > 0)
       THEN Rejected(Merge(rec, [res |-> "InvalidInput"]))
       ELSE IF ~(total_supply > 0)
       THEN Rejected(Merge(rec, [res |-> "InsufficientLiquidity"]))
       ELSE IF lp_mint = "pool" /\ user_lp_account[u] < lp_amount
       THEN Rejected(Merge(rec, [res |-> CpiError]))            \* token::burn
       \* the two transfers; the token transfer is signed by pool_authority,
       \* which is not the authority of the caller's own account
       ELSE IF pool_pda < xnt_amount \/ token_vault < token_amount \/ tv # "pool"
       THEN Rejected(Merge(rec, [res |-> CpiError,
                                 issued |-> IF pool_pda < xnt_amount THEN {"burn"}
                                            ELSE {"burn", "xnt_transfer"}]))
       ELSE IF pool_state.native_reserve < xnt_amount \/ total_supply < lp_amount
       THEN Rejected(Merge(rec, [res |-> "MathOverflow",        \* checked_sub
                                 issued |-> {"burn", "xnt_transfer", "token_transfer"}]))
       ELSE /\ user_lp_account' = IF lp_mint = "pool"
                                  THEN [user_lp_account EXCEPT ![u] = @ - lp_amount]
                                  ELSE user_lp_account
            /\ pool_pda' = pool_pda - xnt_amount
            /\ user_lamports' = [user_lamports EXCEPT ![u] = @ + xnt_amount]
            /\ token_vault' = token_vault - token_amount
            /\ user_token_account' = [user_token_account EXCEPT ![u] = @ + token_amount]
            /\ pool_state' = [pool_state EXCEPT
                                 !.native_reserve = @ - xnt_amount,
                                 !.total_amount_minted = @ - lp_amount]
            /\ last' = Merge(NoLast, Merge(rec, [res |-> Ok, amount0 |-> xnt_amount,
                                                 amount1 |-> token_amount]))
            /\ steps' = steps + 1
            /\ UNCHANGED <<tokenVars, treasury_lamports, rent, calc, codec, arith, initVars>>

remove_native_liquidity(u, lp_amount, lp_mint, tv) ==
    LET rec == [op |-> "remove_native_liquidity", caller |-> u, amount_a |-> lp_amount,
                lp_mint |-> lp_mint, token_vault |-> tv]
        total_supply == pool_state.total_amount_minted
        xnt_amount == (pool_state.native_reserve * lp_amount) \div total_supply
        token_amount == (supplied_vault_balance(u, tv) * lp_amount) \div total_supply
    IN
    /\ steps < MaxSteps
    /\ pool_state.is_native_pool
    /\ IF ~(lp_amount > 0)
       THEN Rejected(Merge(rec, [res |-> "InvalidInput"]))
       ELSE IF ~(total_supply > 0)
       THEN Rejected(Merge(rec, [res |-> "InsufficientLiquidity"]))
       ELSE IF lp_mint = "pool" /\ user_lp_account[u] < lp_amount
       THEN Rejected(Merge(rec, [res |-> CpiError]))            \* token::burn
       \* the two transfers; the token transfer is signed by pool_authority,
       \* which is not the authority of the caller's own account
       ELSE IF pool_pda < xnt_amount \/ token_vault < token_amount \/ tv # "pool"
       THEN Rejected(Merge(rec, [res |-> CpiError,
                                 issued |-> IF pool_pda < xnt_amount THEN {"burn"}
                                            ELSE {"burn", "xnt_transfer"}]))
       ELSE IF pool_state.native_reserve < xnt_amount \/ total_supply < lp_amount
       THEN Rejected(Merge(rec, [res |-> "MathOverflow",        \* checked_sub
                                 issued |-> {"burn", "xnt_transfer", "token_transfer"}]))
       ELSE /\ user_lp_account' = IF lp_mint = "pool"
                                  THEN [user_lp_account EXCEPT ![u] = @ - lp_amount]
                                  ELSE user_lp_account
            /\ pool_pda' = pool_pda - xnt_amount
            /\ user_lamports' = [user_lamports EXCEPT ![u] = @ + xnt_amount]
            /\ token_vault' = token_vault - token_amount
            /\ user_token_account' = [user_token_account EXCEPT ![u] = @ + token_amount]
            /\ pool_state' = [pool_state EXCEPT
                                 !.native_reserve = @ - xnt_amount,
                                 !.total_amount_minted = @ - lp_amount]
            /\ last' = Merge(NoLast, Merge(rec, [res |-> Ok, amount0 |-> xnt_amount,
                                                 amount1 |-> token_amount]))
            /\ steps' = steps + 1
            /\ UNCHANGED <<tokenVars, treasury_lamports, rent, calc, codec, arith, initVars>>

\* mutant: the whole balance taken as tradeable
actual_tradeable_with_rent(total_lamports, rent_minimum) ==
    IF total_lamports < rent_minimum THEN Res("InsufficientRentReserve", 0)
    ELSE Res(Ok, total_lamports)

\* total_lamports.checked_sub(rent_minimum).ok_or(InsufficientRentReserve)
actual_tradeable(total_lamports, rent_minimum) ==
    IF total_lamports < rent_minimum THEN Res("InsufficientRentReserve", 0)
    ELSE Res(Ok, total_lamports - rent_minimum)

reconcile_native_reserve ==
    LET rec == [op |-> "reconcile_native_reserve", tracked |-> pool_state.native_reserve]
        rent_minimum == rent.pool_pda            \* rent.minimum_balance(pool_pda data_len)
        a == actual_tradeable(pool_pda, rent_minimum)
    IN
    /\ steps < MaxSteps
    /\ pool_state.is_native_pool
    /\ IF a.err # Ok
       THEN Rejected(Merge(rec, [res |-> a.err]))
       ELSE /\ pool_state' = [pool_state EXCEPT !.native_reserve = a.v]
            /\ last' = Merge(NoLast, Merge(rec, [res |-> Ok]))
            /\ steps' = steps + 1
            /\ UNCHANGED <<tokenVars, nativeVars, calc, codec, arith, initVars>>

\* recoverable_xnt of recover_stuck_native_xnt:
\* total_lamports.checked_sub(rent_minimum).ok_or(InsufficientRentReserve)
recoverable_xnt(total_lamports, rent_minimum) ==
    IF total_lamports < rent_minimum THEN Res("InsufficientRentReserve", 0)
    ELSE Res(Ok, total_lamports - rent_minimum)

\* recover_stuck_native_xnt, which nobody signs, with `recovery_address` the
\* account of one of the users
recover_stuck_native_xnt(recovery_address) ==
    LET rec == [op |-> "recover_stuck_native_xnt", caller |-> recovery_address,
                tracked |-> pool_state.native_reserve]
        rent_minimum == rent.pool_state       \* rent.minimum_balance(pool_state_data_len)
        r == recoverable_xnt(pool_pda, rent_minimum)
    IN
    /\ steps < MaxSteps
    /\ IF ~pool_state.is_native_pool
       THEN Rejected(Merge(rec, [res |-> "NotNativePool"]))
       ELSE IF ~(pool_state.total_amount_minted = 0)
       THEN Rejected(Merge(rec, [res |-> "InvalidInput"]))
       ELSE IF r.err # Ok
       THEN Rejected(Merge(rec, [res |-> r.err]))
       ELSE /\ pool_pda' = pool_pda - r.v
            /\ user_lamports' = [user_lamports EXCEPT ![recovery_address] = @ + r.v]
            /\ last' = Merge(NoLast, Merge(rec, [res |-> Ok, amount0 |-> r.v]))
            /\ steps' = steps + 1
            /\ UNCHANGED <<pool_state, tokenVars, token_vault, user_token_account,
                           user_lp_account, treasury_lamports, rent, calc, codec, arith,
                           initVars>>

\* mutant: native asset paid out with no look at what stays behind
rent_unchecked(current_lamports, amount_out, rent_minimum) == TRUE

\* the rent check of swap_native before native asset leaves pool_pda:
\* current_lamports.checked_sub(amount_out).unwrap_or(0) >= rent_minimum, where
\* rent_minimum is rent.minimum_balance(pool_state_data_len)
rent_safe(current_lamports, amount_out, rent_minimum) ==
    (IF current_lamports >= amount_out THEN current_lamports - amount_out ELSE 0)
        >= rent_minimum

swap_native(u, amount_in, min_amount_out, is_xnt_to_token, tv) ==
    LET rec == [op |-> "swap_native", caller |-> u, amount_a |-> amount_in,
                min_out |-> min_amount_out, is_xnt_to_token |-> is_xnt_to_token,
                token_vault |-> tv]
        token_vault_balance == supplied_vault_balance(u, tv)
        reserve_in == IF is_xnt_to_token THEN pool_state.native_reserve
                      ELSE token_vault_balance
        reserve_out == IF is_xnt_to_token THEN token_vault_balance
                       ELSE pool_state.native_reserve
        o == calculate_swap_output(amount_in, reserve_in, reserve_out,
                                   pool_state.fee_numerator, pool_state.fee_denominator)
        amount_out == o.v
        xnt_amount_for_fee == IF is_xnt_to_token THEN amount_in ELSE amount_out
        fee == native_protocol_fee_xnt(pool_state.protocol_treasury,
                                       pool_state.protocol_fee_bps, xnt_amount_for_fee)
        final_amount_out == IF is_xnt_to_token THEN amount_out ELSE amount_out - fee
        final_amount_in == IF is_xnt_to_token THEN amount_in - fee ELSE amount_in
        fee_transfer == fee > 0 /\ pool_state.protocol_treasury # DefaultPubkey
        computed == [reserve_in |-> reserve_in, reserve_out |-> reserve_out,
                     output_amount |-> amount_out, protocol_fee_xnt |-> fee,
                     final_output_amount |-> final_amount_out,
                     final_amount_in |-> final_amount_in, fee_transfer |-> fee_transfer]
    IN
    /\ steps < MaxSteps
    /\ pool_state.is_native_pool
    /\ IF ~(amount_in > 0)
       THEN Rejected(Merge(rec, [res |-> "InvalidInput"]))
       ELSE IF o.err # Ok
       THEN Rejected(Merge(rec, [res |-> o.err]))
       ELSE IF fee > (IF is_xnt_to_token THEN amount_in ELSE amount_out)
       THEN Rejected(Merge(rec, [res |-> "MathOverflow"]))      \* checked_sub
       ELSE IF ~enough_out(amount_out, final_amount_out, min_amount_out)
       THEN Rejected(Merge(rec, Merge(computed, [res |-> "SlippageExceeded"])))
       ELSE IF is_xnt_to_token
       THEN \* XNT -> Token
            \* the token transfer out is signed by pool_authority, which is not
            \* the authority of the caller's own account
            IF user_lamports[u] < amount_in \/ token_vault < amount_out \/ tv # "pool"
            THEN Rejected(Merge(rec, Merge(computed,
                     [res |-> CpiError,
                      issued |-> (IF fee_transfer /\ user_lamports[u] >= fee
                                  THEN {"fee_transfer"} ELSE {})
                                 \cup (IF user_lamports[u] >= amount_in
                                       THEN {"xnt_transfer"} ELSE {})])))
            ELSE /\ treasury_lamports' = IF fee_transfer THEN treasury_lamports + fee
                                         ELSE treasury_lamports
                 /\ user_lamports' = [user_lamports EXCEPT
                        ![u] = @ - (IF fee_transfer THEN fee ELSE 0) - final_amount_in]
                 /\ pool_pda' = pool_pda + final_amount_in
                 /\ token_vault' = token_vault - amount_out
                 /\ user_token_account' = [user_token_account EXCEPT ![u] = @ + amount_out]
                 /\ pool_state' = [pool_state EXCEPT !.native_reserve = @ + final_amount_in]
                 /\ last' = Merge(NoLast, Merge(rec, Merge(computed, [res |-> Ok])))
                 /\ steps' = steps + 1
                 /\ UNCHANGED <<tokenVars, user_lp_account, rent, calc, codec, arith, initVars>>
       ELSE \* Token -> XNT
            IF user_token_account[u] < amount_in
            THEN Rejected(Merge(rec, Merge(computed, [res |-> CpiError])))
            ELSE IF ~rent_safe(pool_pda, amount_out, rent.pool_state)
            THEN Rejected(Merge(rec, Merge(computed,
                     [res |-> "InsufficientRentReserve", issued |-> {"token_transfer"}])))
            ELSE IF pool_pda < (IF fee_transfer THEN fee ELSE 0) + final_amount_out
            THEN Rejected(Merge(rec, Merge(computed,
                     [res |-> CpiError, issued |-> {"token_transfer"}])))
            ELSE IF pool_state.native_reserve < amount_out
            THEN Rejected(Merge(rec, Merge(computed,
                     [res |-> "MathOverflow",
                      issued |-> {"token_transfer", "xnt_transfer"}
                                     \cup (IF fee_transfer THEN {"fee_transfer"}
                                           ELSE {})])))
            \* a transfer from an account to itself moves nothing
            ELSE /\ user_token_account' = IF tv = "pool"
                                          THEN [user_token_account EXCEPT ![u] = @ - amount_in]
                                          ELSE user_token_account
                 /\ token_vault' = IF tv = "pool" THEN token_vault + amount_in
                                   ELSE token_vault
                 /\ treasury_lamports' = IF fee_transfer THEN treasury_lamports + fee
                                         ELSE treasury_lamports
                 /\ pool_pda' = pool_pda - (IF fee_transfer THEN fee ELSE 0)
                                         - final_amount_out
                 /\ user_lamports' = [user_lamports EXCEPT ![u] = @ + final_amount_out]
                 /\ pool_state' = [pool_state EXCEPT !.native_reserve = @ - amount_out]
                 /\ last' = Merge(NoLast, Merge(rec, Merge(computed, [res |-> Ok])))
                 /\ steps' = steps + 1
                 /\ UNCHANGED <<tokenVars, user_lp_account, rent, calc, codec, arith, initVars>>

-----------------------------------------------------------------------------
(* Pool creation: init_pool.rs handler and initialize_native_pool of       *)
(* native_pool.rs, with the vault accounts as the ledger holds them.       *)

VaultNames == {"vault0", "vault1", "token_vault"}

SystemProgram == "system"

\* the token program of the vault's mint (vault0_token_program_id)
TokenProgram == "token"

OtherProgram == "other"

\* size of a token account
TokenAccountLen == 165

PayerFunds == 5000

ProvisioningSteps == {"fund", "allocate", "assign", "initialize"}

\* what the payer is short of the rent in a vault somebody funded too little
Shortfall == 1

Absent == [lamports |-> 0, owner |-> SystemProgram, data_len |-> 0, initialized |-> FALSE]

\* the account states the vault branches of pool creation tell apart, for a rent
\* minimum of rent_lamports: never touched, funded (enough, or too little), funded
\* and allocated, assigned to the token program but not initialized, an
\* initialized token account, and an account of some other program
VaultStates(rent_lamports) ==
    {Absent,
     [Absent EXCEPT !.lamports = rent_lamports],
     [Absent EXCEPT !.lamports = rent_lamports - Shortfall],
     [Absent EXCEPT !.lamports = rent_lamports, !.data_len = TokenAccountLen],
     [lamports |-> rent_lamports, owner |-> TokenProgram,
      data_len |-> TokenAccountLen, initialized |-> FALSE],
     [lamports |-> rent_lamports, owner |-> TokenProgram,
      data_len |-> TokenAccountLen, initialized |-> TRUE],
     [lamports |-> rent_lamports, owner |-> OtherProgram,
      data_len |-> 0, initialized |-> FALSE],
     [lamports |-> rent_lamports, owner |-> OtherProgram,
      data_len |-> TokenAccountLen, initialized |-> FALSE]}

Step(e, a, done) == [err |-> e, account |-> a, done |-> done]

\* system_instruction::allocate, signed for the vault: the account must still be
\* the system program's and hold no data
allocate(p) ==
    IF p.err # Ok THEN p
    ELSE IF p.account.owner = SystemProgram /\ p.account.data_len = 0
    THEN Step(Ok, [p.account EXCEPT !.data_len = TokenAccountLen],
              p.done \cup {"allocate"})
    ELSE Step(CpiError, p.account, p.done)

\* system_instruction::assign, signed for the vault
assign(p, program) ==
    IF p.err # Ok THEN p
    ELSE IF p.account.owner = SystemProgram
    THEN Step(Ok, [p.account EXCEPT !.owner = program], p.done \cup {"assign"})
    ELSE Step(CpiError, p.account, p.done)

\* initialize_account3 of the token program: the account must be its own, of the
\* size of a token account, not yet initialized and rent exempt
initialize_account3(p, rent_lamports) ==
    IF p.err # Ok THEN p
    ELSE IF /\ p.account.owner = TokenProgram
            /\ p.account.data_len = TokenAccountLen
            /\ ~p.account.initialized
            /\ p.account.lamports >= rent_lamports
    THEN Step(Ok, [p.account EXCEPT !.initialized = TRUE], p.done \cup {"initialize"})
    ELSE Step(CpiError, p.account, p.done)

\* system_program::transfer of rent_lamports from the payer
fund(p, payer_balance, rent_lamports) ==
    IF p.err # Ok THEN p
    ELSE IF payer_balance >= rent_lamports
    THEN Step(Ok, [p.account EXCEPT !.lamports = @ + rent_lamports],
              p.done \cup {"fund"})
    ELSE Step(CpiError, p.account, p.done)

\* mutant: a vault of the token program initialized again
provision_vault_again(a, payer_balance, rent_lamports) ==
    IF a.lamports = 0
    THEN initialize_account3(assign(allocate(fund(Step(Ok, a, {}), payer_balance,
                                                  rent_lamports)), TokenProgram),
                             rent_lamports)
    ELSE IF a.owner = SystemProgram
    THEN initialize_account3(assign(IF a.data_len = 0 THEN allocate(Step(Ok, a, {}))
                                    ELSE Step(Ok, a, {}), TokenProgram),
                             rent_lamports)
    ELSE IF a.owner = TokenProgram
    THEN initialize_account3(Step(Ok, a, {}), rent_lamports)
    ELSE Step("InvalidTreasury", a, {})

\* the vault block of the init_pool handler (the same for vault0 and vault1)
provision_vault(a, payer_balance, rent_lamports) ==
    IF a.lamports = 0
    THEN \* Case 1: transfer, allocate, assign, initialize
         initialize_account3(assign(allocate(fund(Step(Ok, a, {}), payer_balance,
                                                  rent_lamports)), TokenProgram),
                             rent_lamports)
    ELSE IF a.owner = SystemProgram
    THEN \* Case 2: allocate if there is no data yet, assign, initialize
         initialize_account3(assign(IF a.data_len = 0 THEN allocate(Step(Ok, a, {}))
                                    ELSE Step(Ok, a, {}), TokenProgram),
                             rent_lamports)
    ELSE IF a.owner = TokenProgram
    THEN \* Case 3: taken as already initialized
         Step(Ok, a, {})
    ELSE \* Case 4
         Step("InvalidTreasury", a, {})

\* the vault block of initialize_native_pool: nothing but the first case
provision_token_vault(a, payer_balance, rent_lamports) ==
    IF a.lamports = 0
    THEN initialize_account3(assign(allocate(fund(Step(Ok, a, {}), payer_balance,
                                                  rent_lamports)), TokenProgram),
                             rent_lamports)
    ELSE Step(Ok, a, {})

NoneApplied == [v \in VaultNames |-> [st \in ProvisioningSteps |-> 0]]

Commit(v, done) ==
    [st \in ProvisioningSteps |-> applied[v][st] + (IF st \in done THEN 1 ELSE 0)]

Funding(done) == IF "fund" \in done THEN rent.token_account ELSE 0

\* a pool creation that returned an error, or was refused before the handler ran
NotCreated(rec) ==
    /\ last' = Merge(NoLast, rec)
    /\ UNCHANGED <<pool_state, tokenVars, nativeVars, initVars, calc, codec, arith, steps>>

\* arguments of pool creation
InitFees == {[fee_numerator |-> 3, fee_denominator |-> 1000],
             [fee_numerator |-> 3, fee_denominator |-> 0]}

InitProtocols == {[protocol_treasury |-> DefaultPubkey, protocol_fee_bps |-> 0],
                  [protocol_treasury |-> TreasuryKey, protocol_fee_bps |-> 1000],
                  [protocol_treasury |-> TreasuryKey, protocol_fee_bps |-> 10001]}

NativeMintIndexes == {0, 1, 2}

\* initialize_pool; protocol_treasury and protocol_fee_bps after unwrap_or
initialize_pool(fee_numerator, fee_denominator, protocol_treasury, protocol_fee_bps) ==
    LET rec == [op |-> "initialize_pool",
                args |-> <<fee_numerator, fee_denominator, protocol_treasury,
                           protocol_fee_bps>>]
        rent_lamports == rent.token_account
        p0 == provision_vault(vault_account["vault0"], payer_lamports, rent_lamports)
        p1 == provision_vault(vault_account["vault1"],
                              payer_lamports - Funding(p0.done), rent_lamports)
    IN
    IF pool_state_exists
    THEN NotCreated(Merge(rec, [res |-> "AccountInUse"]))      \* #[account(init)]
    ELSE IF p0.err # Ok
    THEN NotCreated(Merge(rec, [res |-> p0.err, issued |-> p0.done]))
    ELSE IF p1.err # Ok
    THEN NotCreated(Merge(rec, [res |-> p1.err, issued |-> p0.done \cup p1.done]))
    ELSE IF ~(protocol_fee_bps <= BpsDenominator)
    THEN NotCreated(Merge(rec, [res |-> "InvalidProtocolFee",
                                issued |-> p0.done \cup p1.done]))
    ELSE /\ vault_account' = [vault_account EXCEPT !["vault0"] = p0.account,
                                                   !["vault1"] = p1.account]
         /\ payer_lamports' = payer_lamports - Funding(p0.done) - Funding(p1.done)
         /\ applied' = [applied EXCEPT !["vault0"] = Commit("vault0", p0.done),
                                       !["vault1"] = Commit("vault1", p1.done)]
         /\ pool_state' = [pool_state EXCEPT
                              !.fee_numerator = fee_numerator,
                              !.fee_denominator = fee_denominator,
                              !.total_amount_minted = 0,
                              !.protocol_treasury = protocol_treasury,
                              !.protocol_fee_bps = protocol_fee_bps]
         /\ pool_state_exists' = TRUE
         /\ last' = Merge(NoLast, Merge(rec, [res |-> Ok]))
         /\ UNCHANGED <<tokenVars, nativeVars, calc, codec, arith, steps>>

initialize_native_pool(fee_numerator, fee_denominator, protocol_treasury, protocol_fee_bps, native_mint_index) ==
    LET rec == [op |-> "initialize_native_pool",
                args |-> <<fee_numerator, fee_denominator, protocol_treasury,
                           protocol_fee_bps, native_mint_index>>]
        rent_lamports == rent.token_account
        p == provision_token_vault(vault_account["token_vault"], payer_lamports,
                                   rent_lamports)
    IN
    IF pool_state_exists
    THEN NotCreated(Merge(rec, [res |-> "AccountInUse"]))      \* #[account(init)]
    ELSE IF ~(native_mint_index <= 1) \/ ~(fee_denominator > 0)
            \/ ~(protocol_fee_bps <= BpsDenominator)
    THEN NotCreated(Merge(rec, [res |-> "InvalidInput"]))
    ELSE IF p.err # Ok
    THEN NotCreated(Merge(rec, [res |-> p.err, issued |-> p.done]))
    ELSE /\ vault_account' = [vault_account EXCEPT !["token_vault"] = p.account]
         /\ payer_lamports' = payer_lamports - Funding(p.done)
         /\ applied' = [applied EXCEPT !["token_vault"] = Commit("token_vault", p.done)]
         /\ pool_state' = [pool_state EXCEPT
                              !.total_amount_minted = 0,
                              !.fee_numerator = fee_numerator,
                              !.fee_denominator = fee_denominator,
                              !.protocol_treasury = protocol_treasury,
                              !.protocol_fee_bps = protocol_fee_bps,
                              !.is_native_pool = TRUE,
                              !.native_reserve = 0,
                              !.native_mint_index = native_mint_index]
         /\ pool_state_exists' = TRUE
         /\ last' = Merge(NoLast, Merge(rec, [res |-> Ok]))
         /\ UNCHANGED <<tokenVars, nativeVars, calc, codec, arith, steps>>

-----------------------------------------------------------------------------
(* The swap arithmetic on its own: both computations applied to the same   *)
(* inputs.                                                                 *)

CalcAmounts == {1, 10, 100, 1000}

CalcReserves == {1, 10, 1000, 5000}

FeeSchedules == {[fee_numerator |-> 3, fee_denominator |-> 1000]}

CalcFeeSchedules == FeeSchedules \cup {[fee_numerator |-> 0, fee_denominator |-> 1],
                                       [fee_numerator |-> 1, fee_denominator |-> 4]}

NoCalc ==
    [amount_in |-> 0, reserve_in |-> 0, reserve_out |-> 0,
     fee_numerator |-> 0, fee_denominator |-> 0,
     swap |-> Res("none", 0), swap_native |-> Res("none", 0)]

\* lines 104-115 of swap applied to the inputs
compute_swap ==
    /\ calc.amount_in > 0
    /\ calc.swap.err = "none"
    /\ calc' = [calc EXCEPT !.swap =
                   swap_output_amount(calc.amount_in, calc.reserve_in, calc.reserve_out,
                                      calc.fee_numerator, calc.fee_denominator)]
    /\ UNCHANGED <<pool_state, tokenVars, nativeVars, initVars, codec, arith, last, steps>>

\* calculate_swap_output applied to the inputs
compute_swap_native ==
    /\ calc.amount_in > 0
    /\ calc.swap_native.err = "none"
    /\ calc' = [calc EXCEPT !.swap_native =
                   calculate_swap_output(calc.amount_in, calc.reserve_in, calc.reserve_out,
                                         calc.fee_numerator, calc.fee_denominator)]
    /\ UNCHANGED <<pool_state, tokenVars, nativeVars, initVars, codec, arith, last, steps>>

-----------------------------------------------------------------------------
(* PoolState as account data: state.rs, and the byte patch of              *)
(* add_native_liquidity.                                                   *)

AccountDiscriminatorNotFound == "AccountDiscriminatorNotFound"

\* the length below which try_deserialize gives up
MinimumLen == 32

\* where add_native_liquidity writes native_reserve
reserve_offset == 68

\* the first 8 bytes of sha256("account:PoolState")
Discriminator == <<247, 237, 227, 245, 215, 195, 222, 70>>

RECURSIVE to_le_bytes(_, _)
\* the k little-endian bytes of n
to_le_bytes(n, k) ==
    IF k = 0 THEN <<>> ELSE <<n % 256>> \o to_le_bytes(n \div 256, k - 1)

RECURSIVE from_le_bytes(_)
\* the number whose little-endian bytes are b
from_le_bytes(b) ==
    IF b = <<>> THEN 0 ELSE Head(b) + 256 * from_le_bytes(Tail(b))

\* the 32 bytes of a key; the default key is all zeros
to_bytes(key) ==
    [i \in 1..32 |-> IF key = DefaultPubkey THEN 0
                     ELSE IF i = 1 THEN 7 ELSE IF i = 2 THEN 1 ELSE 0]

\* the key that 32 bytes stand for
pubkey_try_from(bytes) ==
    IF bytes = to_bytes(DefaultPubkey) THEN DefaultPubkey
    ELSE IF bytes = to_bytes(TreasuryKey) THEN TreasuryKey
    ELSE "unknown"

\* the bytes of the data from 0-based offset `from` up to `to`, excluded
Slice(data, from, to) == SubSeq(data, from + 1, to)

\* the data with the bytes at 0-based offset `at` replaced
CopyFromSlice(data, at, bytes) ==
    [i \in 1..Len(data) |-> IF i > at /\ i <= at + Len(bytes) THEN bytes[i - at]
                            ELSE data[i]]

\* the account discriminator followed by the fields in the order of the struct
try_serialize(p) ==
    Discriminator
        \o to_le_bytes(p.total_amount_minted, 8)
        \o to_le_bytes(p.fee_numerator, 8)
        \o to_le_bytes(p.fee_denominator, 8)
        \o to_bytes(p.protocol_treasury)
        \o to_le_bytes(p.protocol_fee_bps, 2)
        \o <<IF p.is_native_pool THEN 1 ELSE 0>>
        \o <<p.native_mint_index>>
        \o to_le_bytes(p.native_reserve, 8)

\* mutant: the fields read by the length of the layout, so the native fields are
\* not read when the protocol fields are missing
try_deserialize_by_layout(data) ==
    IF Len(data) < MinimumLen THEN Res(AccountDiscriminatorNotFound, 0)
    ELSE
    LET has_protocol == Len(data) >= 66
        has_native == Len(data) >= 76
    IN  Res(Ok,
            [total_amount_minted |-> from_le_bytes(Slice(data, 8, 16)),
             fee_numerator |-> from_le_bytes(Slice(data, 16, 24)),
             fee_denominator |-> from_le_bytes(Slice(data, 24, 32)),
             protocol_treasury |-> IF has_protocol
                                   THEN pubkey_try_from(Slice(data, 32, 64))
                                   ELSE DefaultPubkey,
             protocol_fee_bps |-> IF has_protocol THEN from_le_bytes(Slice(data, 64, 66))
                                  ELSE 0,
             is_native_pool |-> IF has_native THEN data[67] # 0 ELSE FALSE,
             native_mint_index |-> IF has_native THEN data[76] ELSE 0,
             native_reserve |-> IF has_native THEN from_le_bytes(Slice(data, 67, 75))
                                ELSE 0])

\* PoolState::try_deserialize
try_deserialize(data) ==
    IF Len(data) < MinimumLen THEN Res(AccountDiscriminatorNotFound, 0)
    ELSE
    LET cursor0 == Slice(data, 8, Len(data))
        total_amount_minted == from_le_bytes(Slice(cursor0, 0, 8))
        cursor1 == Slice(cursor0, 8, Len(cursor0))
        fee_numerator == from_le_bytes(Slice(cursor1, 0, 8))
        cursor2 == Slice(cursor1, 8, Len(cursor1))
        fee_denominator == from_le_bytes(Slice(cursor2, 0, 8))
        cursor3 == Slice(cursor2, 8, Len(cursor2))
        has_protocol == Len(cursor3) >= 34
        protocol_treasury == IF has_protocol THEN pubkey_try_from(Slice(cursor3, 0, 32))
                             ELSE DefaultPubkey
        protocol_fee_bps == IF has_protocol THEN from_le_bytes(Slice(cursor3, 32, 34))
                            ELSE 0
        cursor == IF Len(cursor3) >= 34 THEN Slice(cursor3, 34, Len(cursor3)) ELSE cursor3
        has_native == Len(cursor) >= 10
    IN  Res(Ok,
            [total_amount_minted |-> total_amount_minted,
             fee_numerator |-> fee_numerator,
             fee_denominator |-> fee_denominator,
             protocol_treasury |-> protocol_treasury,
             protocol_fee_bps |-> protocol_fee_bps,
             is_native_pool |-> IF has_native THEN cursor[1] # 0 ELSE FALSE,
             native_mint_index |-> IF has_native THEN cursor[10] ELSE 0,
             native_reserve |-> IF has_native THEN from_le_bytes(Slice(cursor, 1, 9))
                                ELSE 0])

\* the values of PoolState the records are written from
PoolValues ==
    {[total_amount_minted |-> t, fee_numerator |-> 3, fee_denominator |-> 1000,
      protocol_treasury |-> k, protocol_fee_bps |-> b,
      is_native_pool |-> n, native_mint_index |-> i, native_reserve |-> r] :
        t \in {0, 2162}, k \in {DefaultPubkey, TreasuryKey}, b \in {0, 1000},
        n \in BOOLEAN, i \in {0, 1}, r \in {0, 480}}

\* the lengths of the records: the three layouts (32, 66, 76), the space of a
\* native pool's account (80), and lengths below and between them
RecordLens == {0, 8, 31, 32, 33, 41, 42, 65, 66, 75, 76, 80}

\* the amounts add_native_liquidity adds to native_reserve and total_amount_minted
PatchAmounts == {[xnt_amount |-> 1000, lp_to_mint |-> 2162]}

\* PoolState::default(): every field zero
DefaultPoolState ==
    [total_amount_minted |-> 0, fee_numerator |-> 0, fee_denominator |-> 0,
     protocol_treasury |-> DefaultPubkey, protocol_fee_bps |-> 0,
     is_native_pool |-> FALSE, native_mint_index |-> 0, native_reserve |-> 0]

NoCodec ==
    [pool |-> DefaultPoolState,
     space |-> 0, written |-> FALSE, patched |-> FALSE, data |-> <<>>,
     loaded |-> Res("none", 0)]

\* the account data of `space` bytes, zeroed at allocation, receives the
\* serialized PoolState as far as it fits
write_account ==
    /\ codec.written = FALSE
    /\ codec' = [codec EXCEPT
                    !.written = TRUE,
                    !.data = SubSeq(try_serialize(codec.pool) \o <<0, 0, 0, 0>>,
                                    1, codec.space)]
    /\ UNCHANGED <<pool_state, tokenVars, nativeVars, initVars, calc, arith, last, steps>>

\* lines 366-390 of add_native_liquidity: the two fields are written at their
\* byte offsets, and in the struct
write_reserve_bytes(xnt_amount, lp_to_mint) ==
    /\ codec.written
    /\ codec.patched = FALSE
    /\ codec.loaded.err = "none"
    /\ Len(codec.data) >= reserve_offset + 8
    /\ LET new_native_reserve == codec.pool.native_reserve + xnt_amount
           new_total_minted == codec.pool.total_amount_minted + lp_to_mint
           data1 == CopyFromSlice(codec.data, 8, to_le_bytes(new_total_minted, 8))
           data2 == CopyFromSlice(data1, reserve_offset,
                                  to_le_bytes(new_native_reserve, 8))
       IN  codec' = [codec EXCEPT
                        !.patched = TRUE,
                        !.data = data2,
                        !.pool = [codec.pool EXCEPT
                                     !.native_reserve = new_native_reserve,
                                     !.total_amount_minted = new_total_minted]]
    /\ UNCHANGED <<pool_state, tokenVars, nativeVars, initVars, calc, arith, last, steps>>

\* line 81 of swap: the account data is read with PoolState::try_deserialize
read_account ==
    /\ codec.written
    /\ codec.loaded.err = "none"
    /\ codec' = [codec EXCEPT !.loaded = try_deserialize(codec.data)]
    /\ UNCHANGED <<pool_state, tokenVars, nativeVars, initVars, calc, arith, last, steps>>

-----------------------------------------------------------------------------
(* Arithmetic at the width of the machine integers (liquidity.rs, swap.rs, *)
(* native_pool.rs): each statement on its own, its operands drawn from the *)
(* whole range of their type.                                              *)

\* bits of the narrow unsigned integer of the model: the program's is u64,
\* and its wide one, u128, has twice as many
Width == 4

\* one more than the largest u64 and the largest u128
U64Modulus == 2^Width

U128Modulus == 2^(2 * Width)

U64 == 0..(U64Modulus - 1)

U128 == 0..(U128Modulus - 1)

\* a plain +, - or +=, -=: off the range of the type the build either aborts
\* (overflow checks on) or keeps the low bits (overflow checks off)
Unchecked(exact, modulus) ==
    IF exact \in 0..(modulus - 1)
    THEN {Res(Ok, exact)}
    ELSE {Res(Panic, 0), Res(Ok, exact % modulus)}

\* `as u64` keeps the low bits
as_u64(v) == v % U64Modulus

\* add_liquidity, first deposit: (amount_liq0 + amount_liq1) >> 1
first_deposit_amount_to_mint(amount_liq0, amount_liq1) ==
    {Res(r.err, r.v \div 2) : r \in Unchecked(amount_liq0 + amount_liq1, U64Modulus)}

\* add_liquidity, later deposit: exchange10 and amount_deposit_1
amount_deposit_1(amount_liq0, vault_balance0, vault_balance1) ==
    IF vault_balance0 = 0 THEN {Res(Panic, 0)}
    ELSE LET exchange10 == vault_balance1 \div vault_balance0
         IN  IF amount_liq0 * exchange10 >= U64Modulus
             THEN {Res(Panic, 0)}
             ELSE {Res(Ok, amount_liq0 * exchange10)}

\* add_liquidity, later deposit: amount_to_mint
proportional_amount_to_mint(deposit1, total_amount_minted, vault_balance1) ==
    IF vault_balance1 = 0 THEN {Res(Panic, 0)}
    ELSE {Res(Ok, as_u64((deposit1 * total_amount_minted) \div vault_balance1))}

\* add_liquidity: pool_state.total_amount_minted += amount_to_mint
total_amount_minted_add(total_amount_minted, amount_to_mint) ==
    Unchecked(total_amount_minted + amount_to_mint, U64Modulus)

\* remove_liquidity: the amount paid back of one vault
withdraw_amount(burn_amount, vault_amount, total_amount_minted) ==
    IF total_amount_minted = 0 THEN {Res(Panic, 0)}
    ELSE {Res(Ok, as_u64((burn_amount * vault_amount) \div total_amount_minted))}

\* remove_liquidity: state.total_amount_minted -= burn_amount
total_amount_minted_sub(total_amount_minted, burn_amount) ==
    Unchecked(total_amount_minted - burn_amount, U64Modulus)

\* swap: lp_fee_amount and amount_in_minus_fees, in u128
amount_in_minus_fees(amount_in, fee_numerator, fee_denominator) ==
    IF fee_denominator = 0 THEN {Res(Panic, 0)}
    ELSE LET lp_fee_amount == (amount_in * fee_numerator) \div fee_denominator
         IN  Unchecked(amount_in - lp_fee_amount, U128Modulus)

\* calculate_swap_output: amount_in_with_fee
amount_in_with_fee(amount_in, fee_numerator, fee_denominator) ==
    {IF d.err # Ok THEN d
     ELSE IF fee_denominator = 0 THEN Res("MathOverflow", 0)
     ELSE Res(Ok, as_u64((amount_in * d.v) \div fee_denominator)) :
         d \in Unchecked(fee_denominator - fee_numerator, U64Modulus)}

\* integer_sqrt: let mut y = (x + 1) / 2
first_y(x) ==
    {Res(r.err, r.v \div 2) : r \in Unchecked(x + 1, U128Modulus)}

\* integer_sqrt with the loop stepping to the rounded-up mean
next_y_rounded_up(x, self) ==
    IF x = 0 THEN {Res(Panic, 0)}
    ELSE {Res(r.err, (r.v + 1) \div 2) : r \in Unchecked(x + self \div x, U128Modulus)}

\* integer_sqrt: y = (x + self / x) / 2; a division by zero aborts
next_y(x, self) ==
    IF x = 0 THEN {Res(Panic, 0)}
    ELSE {Res(r.err, r.v \div 2) : r \in Unchecked(x + self \div x, U128Modulus)}

NoArith ==
    [site |-> "none", args |-> <<>>, res |-> Res("none", 0),
     self |-> 0, x |-> 0, y |-> 0, pc |-> "idle", overflowed |-> FALSE]

\* no statement has been evaluated yet
ArithIdle == arith.site = "none" /\ arith.pc = "idle"

\* one statement evaluated: what it was given and one of its outcomes
Evaluated(site, args, outcomes) ==
    /\ \E r \in outcomes : arith' = [arith EXCEPT !.site = site, !.args = args, !.res = r]
    /\ UNCHANGED <<pool_state, tokenVars, nativeVars, initVars, calc, codec, last, steps>>

eval_first_deposit_amount_to_mint ==
    /\ ArithIdle
    /\ \E a0 \in U64, a1 \in U64 :
           Evaluated("first_deposit_amount_to_mint", <<a0, a1>>,
                     first_deposit_amount_to_mint(a0, a1))

\* the branch taken unless both vaults are empty
eval_amount_deposit_1 ==
    /\ ArithIdle
    /\ \E a0 \in U64, v0 \in U64, v1 \in U64 :
           /\ ~(v0 = 0 /\ v1 = 0)
           /\ Evaluated("amount_deposit_1", <<a0, v0, v1>>, amount_deposit_1(a0, v0, v1))

eval_proportional_amount_to_mint ==
    /\ ArithIdle
    /\ \E d1 \in U64, total \in U64, v1 \in U64 :
           Evaluated("proportional_amount_to_mint", <<d1, total, v1>>,
                     proportional_amount_to_mint(d1, total, v1))

\* amount_to_mint > 0 was required before (NoPoolMintOutput)
eval_total_amount_minted_add ==
    /\ ArithIdle
    /\ \E total \in U64, m \in U64 :
           /\ m > 0
           /\ Evaluated("total_amount_minted_add", <<total, m>>,
                        total_amount_minted_add(total, m))

\* burn_amount <= total_amount_minted was required before (BurnTooMuch)
eval_withdraw_amount ==
    /\ ArithIdle
    /\ \E b \in U64, v \in U64, total \in U64 :
           /\ b <= total
           /\ Evaluated("withdraw_amount", <<b, v, total>>, withdraw_amount(b, v, total))

eval_total_amount_minted_sub ==
    /\ ArithIdle
    /\ \E total \in U64, b \in U64 :
           /\ b <= total
           /\ Evaluated("total_amount_minted_sub", <<total, b>>,
                        total_amount_minted_sub(total, b))

eval_amount_in_minus_fees ==
    /\ ArithIdle
    /\ \E a \in U64, n \in U64, d \in U64 :
           Evaluated("amount_in_minus_fees", <<a, n, d>>, amount_in_minus_fees(a, n, d))

\* initialize_native_pool required fee_denominator > 0
eval_amount_in_with_fee ==
    /\ ArithIdle
    /\ \E a \in U64, n \in U64, d \in U64 :
           /\ d > 0
           /\ Evaluated("amount_in_with_fee", <<a, n, d>>, amount_in_with_fee(a, n, d))

\* integer_sqrt up to the loop: the zero case, x and the first y
sqrt_enter ==
    /\ arith.pc = "entry"
    /\ IF arith.self = 0
       THEN arith' = [arith EXCEPT !.pc = "done", !.res = Res(Ok, 0)]
       ELSE \E r \in first_y(arith.self) :
                arith' = IF r.err # Ok
                         THEN [arith EXCEPT !.pc = "done", !.res = r, !.x = arith.self,
                                            !.overflowed = TRUE]
                         ELSE [arith EXCEPT !.pc = "loop", !.x = arith.self, !.y = r.v,
                                            !.overflowed = (arith.self + 1 >= U128Modulus)]
    /\ UNCHANGED <<pool_state, tokenVars, nativeVars, initVars, calc, codec, last, steps>>

\* integer_sqrt: one pass of the body of while y < x
sqrt_iterate ==
    /\ arith.pc = "loop"
    /\ arith.y < arith.x
    /\ \E r \in next_y(arith.y, arith.self) :
           arith' = IF r.err # Ok
                    THEN [arith EXCEPT !.pc = "done", !.res = r, !.x = arith.y,
                                       !.overflowed = (arith.overflowed \/ arith.y # 0)]
                    ELSE [arith EXCEPT !.x = arith.y, !.y = r.v,
                                       !.overflowed =
                                           \/ arith.overflowed
                                           \/ arith.y + arith.self \div arith.y >= U128Modulus]
    /\ UNCHANGED <<pool_state, tokenVars, nativeVars, initVars, calc, codec, last, steps>>

\* integer_sqrt: the loop is left and x returned
sqrt_return ==
    /\ arith.pc = "loop"
    /\ ~(arith.y < arith.x)
    /\ arith' = [arith EXCEPT !.pc = "done", !.res = Res(Ok, arith.x)]
    /\ UNCHANGED <<pool_state, tokenVars, nativeVars, initVars, calc, codec, last, steps>>

-----------------------------------------------------------------------------
(* Initial states and specifications.                                      *)

\* protocol_treasury and protocol_fee_bps as pool creation may set them
ProtocolSetups ==
    {[protocol_treasury |-> DefaultPubkey, protocol_fee_bps |-> 0],
     [protocol_treasury |-> DefaultPubkey, protocol_fee_bps |-> 1000],
     [protocol_treasury |-> TreasuryKey, protocol_fee_bps |-> 0],
     [protocol_treasury |-> TreasuryKey, protocol_fee_bps |-> 1000]}

\* PoolState as initialize_pool / initialize_native_pool leave it
NewPoolState(fees, protocol, is_native_pool) ==
    [total_amount_minted |-> 0,
     fee_numerator |-> fees.fee_numerator,
     fee_denominator |-> fees.fee_denominator,
     protocol_treasury |-> protocol.protocol_treasury,
     protocol_fee_bps |-> protocol.protocol_fee_bps,
     is_native_pool |-> is_native_pool,
     native_mint_index |-> 0,
     native_reserve |-> 0]

TokenIdle ==
    /\ vault = [m \in Mints |-> 0]
    /\ user = [u \in Users |-> [m \in Mints |-> 0]]
    /\ user_pool_ata = [u \in Users |-> 0]
    /\ protocol_treasury_ata = 0
    /\ native_mints = {}

NativeIdle ==
    /\ pool_pda = 0
    /\ token_vault = 0
    /\ user_lamports = [u \in Users |-> 0]
    /\ user_token_account = [u \in Users |-> 0]
    /\ user_lp_account = [u \in Users |-> 0]
    /\ treasury_lamports = 0
    /\ rent \in RentSchedules

\* pool creation done: the pool_state account exists and every vault is an
\* initialized token account
Provisioned ==
    /\ pool_state_exists = TRUE
    /\ vault_account = [v \in VaultNames |->
                           [lamports |-> rent.token_account, owner |-> TokenProgram,
                            data_len |-> TokenAccountLen, initialized |-> TRUE]]
    /\ payer_lamports = 0
    /\ applied = NoneApplied

\* before pool creation: no pool_state account yet
Uncreated ==
    /\ pool_state = NewPoolState([fee_numerator |-> 0, fee_denominator |-> 0],
                                 [protocol_treasury |-> DefaultPubkey,
                                  protocol_fee_bps |-> 0], FALSE)
    /\ pool_state_exists = FALSE
    /\ payer_lamports = PayerFunds
    /\ applied = NoneApplied
    /\ TokenIdle
    /\ NativeIdle
    /\ calc = NoCalc
    /\ codec = NoCodec
    /\ arith = NoArith
    /\ last = NoLast
    /\ steps = 0

\* the ledger before initialize_pool: vault0 and vault1 in any of the states the
\* handler tells apart
InitPoolCreation ==
    /\ Uncreated
    /\ vault_account \in [VaultNames -> VaultStates(rent.token_account)]
    /\ vault_account["token_vault"] = Absent

\* the ledger before initialize_native_pool
InitNativePoolCreation ==
    /\ Uncreated
    /\ vault_account \in [VaultNames -> VaultStates(rent.token_account)]
    /\ vault_account["vault0"] = Absent
    /\ vault_account["vault1"] = Absent

\* a token-vault pool right after initialize_pool; one of its mints may be the
\* native mint
InitToken ==
    /\ \E fees \in FeeSchedules, protocol \in ProtocolSetups :
           pool_state = NewPoolState(fees, protocol, FALSE)
    /\ vault = [m \in Mints |-> 0]
    /\ user = [u \in Users |-> [m \in Mints |-> UserFunds]]
    /\ user_pool_ata = [u \in Users |-> 0]
    /\ protocol_treasury_ata = 0
    /\ native_mints \in {{}, {0}}
    /\ (native_mints = {} => pool_state.protocol_fee_bps = 0
                             /\ pool_state.protocol_treasury = DefaultPubkey)
    /\ NativeIdle
    /\ calc = NoCalc
    /\ codec = NoCodec
    /\ arith = NoArith
    /\ last = NoLast
    /\ steps = 0
    /\ Provisioned

\* a native pool right after initialize_native_pool; pool_pda was never touched by
\* the program and holds nothing, or what somebody sent it to cover its rent
InitNative ==
    /\ \E fees \in FeeSchedules, protocol \in ProtocolSetups :
           pool_state = NewPoolState(fees, protocol, TRUE)
    /\ rent \in RentSchedules
    /\ pool_pda \in {0, rent.pool_pda}
    /\ token_vault = 0
    /\ user_lamports = [u \in Users |-> NativeUserFunds]
    /\ user_token_account = [u \in Users |-> NativeUserFunds]
    /\ user_lp_account = [u \in Users |-> 0]
    /\ treasury_lamports = 0
    /\ TokenIdle
    /\ calc = NoCalc
    /\ codec = NoCodec
    /\ arith = NoArith
    /\ last = NoLast
    /\ steps = 0
    /\ Provisioned

\* the swap arithmetic on its own: the inputs are loaded and no pool operation
\* follows
InitCalc ==
    /\ \E a \in CalcAmounts, rin \in CalcReserves, rout \in CalcReserves,
          fees \in CalcFeeSchedules :
           calc = [NoCalc EXCEPT !.amount_in = a, !.reserve_in = rin, !.reserve_out = rout,
                                 !.fee_numerator = fees.fee_numerator,
                                 !.fee_denominator = fees.fee_denominator]
    /\ pool_state = NewPoolState([fee_numerator |-> 0, fee_denominator |-> 1],
                                 [protocol_treasury |-> DefaultPubkey,
                                  protocol_fee_bps |-> 0], FALSE)
    /\ TokenIdle
    /\ NativeIdle
    /\ codec = NoCodec
    /\ arith = NoArith
    /\ last = NoLast
    /\ steps = MaxSteps
    /\ Provisioned

\* a PoolState and the length of the record it is about to be written to
InitCodec ==
    /\ \E p \in PoolValues, n \in RecordLens :
           codec = [NoCodec EXCEPT !.pool = p, !.space = n]
    /\ arith = NoArith
    /\ pool_state = NoCodec.pool
    /\ TokenIdle
    /\ NativeIdle
    /\ calc = NoCalc
    /\ last = NoLast
    /\ steps = MaxSteps
    /\ Provisioned

\* one arithmetic statement about to be evaluated
InitArith ==
    /\ arith = NoArith
    /\ pool_state = NoCodec.pool
    /\ TokenIdle
    /\ NativeIdle
    /\ calc = NoCalc
    /\ codec = NoCodec
    /\ last = NoLast
    /\ steps = MaxSteps
    /\ Provisioned

\* integer_sqrt called on a u128
InitSqrt ==
    /\ \E n \in U128 : arith = [NoArith EXCEPT !.site = "integer_sqrt", !.self = n,
                                               !.pc = "entry"]
    /\ pool_state = NoCodec.pool
    /\ TokenIdle
    /\ NativeIdle
    /\ calc = NoCalc
    /\ codec = NoCodec
    /\ last = NoLast
    /\ steps = MaxSteps
    /\ Provisioned

NextToken ==
    \/ \E u \in Users, a0 \in LiqAmounts0, a1 \in LiqAmounts1 : add_liquidity(u, a0, a1)
    \/ \E u \in Users, b \in BurnAmounts : remove_liquidity(u, b)
    \/ \E u \in Users, src \in Mints, a \in SwapAmounts, m \in MinAmountsOut,
          ata \in TreasuryRecords : swap(u, src, a, m, ata)
    \/ \E u \in Users : recover_stuck_native_xnt(u)

\* the native pool used with the vault that was created with it
NextNative ==
    \/ \E u \in Users, x \in XntAmounts, t \in TokenAmounts, m \in MinLpTokens,
          mint \in LpMints : add_native_liquidity(u, x, t, m, mint, "pool")
    \/ \E u \in Users, lp \in LpAmounts, mint \in LpMints :
          remove_native_liquidity(u, lp, mint, "pool")
    \/ \E u \in Users, a \in NativeSwapAmounts, m \in NativeMinAmountsOut,
          d \in BOOLEAN : swap_native(u, a, m, d, "pool")
    \/ reconcile_native_reserve
    \/ \E u \in Users : recover_stuck_native_xnt(u)

\* the native pool with whatever token account the caller supplies as token_vault
NextNativeAnyVault ==
    \/ \E u \in Users, x \in XntAmounts, t \in TokenAmounts, m \in MinLpTokens,
          mint \in LpMints, tv \in TokenVaults : add_native_liquidity(u, x, t, m, mint, tv)
    \/ \E u \in Users, lp \in LpAmounts, mint \in LpMints, tv \in TokenVaults :
          remove_native_liquidity(u, lp, mint, tv)
    \/ \E u \in Users, a \in NativeSwapAmounts, m \in NativeMinAmountsOut,
          d \in BOOLEAN, tv \in TokenVaults : swap_native(u, a, m, d, tv)
    \/ reconcile_native_reserve
    \/ \E u \in Users : recover_stuck_native_xnt(u)

NextCalc ==
    \/ compute_swap
    \/ compute_swap_native

NextCodec ==
    \/ write_account
    \/ \E a \in PatchAmounts : write_reserve_bytes(a.xnt_amount, a.lp_to_mint)
    \/ read_account

NextArith ==
    \/ eval_first_deposit_amount_to_mint
    \/ eval_amount_deposit_1
    \/ eval_proportional_amount_to_mint
    \/ eval_total_amount_minted_add
    \/ eval_withdraw_amount
    \/ eval_total_amount_minted_sub
    \/ eval_amount_in_minus_fees
    \/ eval_amount_in_with_fee

NextSqrt ==
    \/ sqrt_enter
    \/ sqrt_iterate
    \/ sqrt_return

NextPoolCreation ==
    \E fees \in InitFees, protocol \in InitProtocols :
        initialize_pool(fees.fee_numerator, fees.fee_denominator,
                        protocol.protocol_treasury, protocol.protocol_fee_bps)

NextNativePoolCreation ==
    \E fees \in InitFees, protocol \in InitProtocols, i \in NativeMintIndexes :
        initialize_native_pool(fees.fee_numerator, fees.fee_denominator,
                               protocol.protocol_treasury, protocol.protocol_fee_bps, i)

\* pool creation asked for again and again with arguments it accepts
ValidPoolCreation ==
    \E fees \in InitFees, protocol \in InitProtocols :
        /\ protocol.protocol_fee_bps <= BpsDenominator
        /\ initialize_pool(fees.fee_numerator, fees.fee_denominator,
                           protocol.protocol_treasury, protocol.protocol_fee_bps)

SpecPoolCreation == InitPoolCreation /\ [][NextPoolCreation]_vars

SpecPoolCreationLive == SpecPoolCreation /\ WF_vars(ValidPoolCreation)

SpecNativePoolCreation == InitNativePoolCreation /\ [][NextNativePoolCreation]_vars

SpecToken == InitToken /\ [][NextToken]_vars

SpecNative == InitNative /\ [][NextNative]_vars

SpecNativeAnyVault == InitNative /\ [][NextNativeAnyVault]_vars

SpecCalc == InitCalc /\ [][NextCalc]_vars

SpecCodec == InitCodec /\ [][NextCodec]_vars

SpecArith == InitArith /\ [][NextArith]_vars

SpecSqrt == InitSqrt /\ [][NextSqrt]_vars

\* a call that was entered runs on: nothing in the program suspends it
SpecSqrtLive == SpecSqrt /\ WF_vars(NextSqrt)

Next == NextToken \/ NextNative \/ NextCalc

Init == InitToken \/ InitNative \/ InitCalc

Spec == Init /\ [][Next]_vars

-----------------------------------------------------------------------------
(* Claims.                                                                 *)

SwapOps == {"swap", "swap_native"}

\* the reserve on the input side and on the output side of the last swap, as the
\* pool holds them now
ReserveInNow ==
    IF last.op = "swap" THEN vault[last.src]
    ELSE IF last.is_xnt_to_token THEN pool_state.native_reserve ELSE token_vault

ReserveOutNow ==
    IF last.op = "swap" THEN vault[1 - last.src]
    ELSE IF last.is_xnt_to_token THEN token_vault ELSE pool_state.native_reserve

\* C1: after any successful swap (swap or swap_native, either direction, with or
\* without a protocol fee) the product of the two reserves the pool actually holds
\* is at least the product before the swap.
C1_ProductNeverDecreases ==
    (last.op \in SwapOps /\ last.res = Ok)
        => ReserveInNow * ReserveOutNow >= last.reserve_in * last.reserve_out

SumOver(f) == f["alice"] + f["bob"]

\* C2: in every state reached by deposits and withdrawals, accepted or rejected,
\* the holders' balances of the pool's share token add up to total_amount_minted.
C2_SharesMatchTotal ==
    /\ ~pool_state.is_native_pool => SumOver(user_pool_ata) = pool_state.total_amount_minted
    /\ pool_state.is_native_pool => SumOver(user_lp_account) = pool_state.total_amount_minted

NativeOps == {"add_native_liquidity", "swap_native", "remove_native_liquidity",
              "reconcile_native_reserve"}

\* C3: in a native pool, after any sequence of add_native_liquidity, swap_native,
\* remove_native_liquidity and reconcile_native_reserve, native_reserve is at most
\* the balance of the custody account less that account's rent minimum.
C3_ReserveWithinTradeable ==
    (pool_state.is_native_pool /\ last.op \in NativeOps /\ last.res = Ok)
        => pool_state.native_reserve + rent.pool_pda <= pool_pda

\* amountOut of the specification: floor(a * reserveOut / (reserveIn + a)) with
\* a = floor(amountIn * (feeDenominator - feeNumerator) / feeDenominator)
SpecAmountOut(amount_in, reserve_in, reserve_out, fee_numerator, fee_denominator) ==
    LET a == (amount_in * (fee_denominator - fee_numerator)) \div fee_denominator
    IN  (a * reserve_out) \div (reserve_in + a)

CalcSpecAmountOut ==
    SpecAmountOut(calc.amount_in, calc.reserve_in, calc.reserve_out,
                  calc.fee_numerator, calc.fee_denominator)

\* C4: with positive reserves the output computed by swap and by swap_native is
\* floor(a * reserveOut / (reserveIn + a)), a = floor(amountIn * (den - num) / den);
\* reserves 1000 / 1000, amountIn 100, fee 3 / 1000 give 90.
C4_OutputFormula ==
    /\ calc.swap.err = Ok => calc.swap.v = CalcSpecAmountOut
    /\ calc.swap_native.err = Ok => calc.swap_native.v = CalcSpecAmountOut
    /\ (calc.amount_in = 100 /\ calc.reserve_in = 1000 /\ calc.reserve_out = 1000
        /\ calc.fee_numerator = 3 /\ calc.fee_denominator = 1000)
           => /\ calc.swap.err = Ok => calc.swap.v = 90
              /\ calc.swap_native.err = Ok => calc.swap_native.v = 90

\* C5: on the same reserves, fee and amountIn, and with no protocol fee, swap and
\* swap_native compute the same amountOut and so leave the same reserves.
C5_CustodyModelsAgree ==
    (calc.swap.err = Ok /\ calc.swap_native.err = Ok)
        => /\ calc.swap.v = calc.swap_native.v
           /\ calc.reserve_out - calc.swap.v = calc.reserve_out - calc.swap_native.v

\* the checks of swap that come before the protocol fee is looked at
EarlyRejections == {"NotEnoughBalance", "NotEnoughOut", Panic}

\* C6: in swap, when a protocol fee is due but the supplied treasury record is
\* empty or not owned by the custody service, the swap still succeeds: the
\* trader receives the whole output, the vault the whole amountIn, and no
\* transfer to the treasury is attempted.
C6_InvalidTreasuryRecordSkipsFee ==
    (/\ last.op = "swap"
     /\ last.ata \in {"empty", "foreign"}
     /\ last.res \notin EarlyRejections
     /\ last.reserve_in > 0 /\ last.reserve_out > 0
     /\ last.protocol_fee_xnt > 0)
        => /\ last.res = Ok
           /\ ~last.fee_transfer
           /\ last.final_output_amount = last.output_amount
           /\ last.final_amount_in = last.amount_a

\* what the last swap moved, the state before it against the state after it
TraderPaid ==
    IF last'.op = "swap" THEN user[last'.caller][last'.src] - user'[last'.caller][last'.src]
    ELSE IF last'.is_xnt_to_token THEN user_lamports[last'.caller] - user_lamports'[last'.caller]
    ELSE user_token_account[last'.caller] - user_token_account'[last'.caller]

TraderReceived ==
    IF last'.op = "swap"
    THEN user'[last'.caller][1 - last'.src] - user[last'.caller][1 - last'.src]
    ELSE IF last'.is_xnt_to_token
    THEN user_token_account'[last'.caller] - user_token_account[last'.caller]
    ELSE user_lamports'[last'.caller] - user_lamports[last'.caller]

PoolReceived ==
    IF last'.op = "swap" THEN vault'[last'.src] - vault[last'.src]
    ELSE IF last'.is_xnt_to_token THEN pool_pda' - pool_pda
    ELSE token_vault' - token_vault

PoolPaid ==
    IF last'.op = "swap" THEN vault[1 - last'.src] - vault'[1 - last'.src]
    ELSE IF last'.is_xnt_to_token THEN token_vault - token_vault'
    ELSE pool_pda - pool_pda'

TreasuryReceived ==
    IF last'.op = "swap" THEN protocol_treasury_ata' - protocol_treasury_ata
    ELSE treasury_lamports' - treasury_lamports

NativeIsInput ==
    IF last'.op = "swap" THEN last'.src \in native_mints ELSE last'.is_xnt_to_token

NativeIsOutput ==
    IF last'.op = "swap" THEN (1 - last'.src) \in native_mints ELSE ~last'.is_xnt_to_token

SwapDone == last'.op \in SwapOps /\ last'.res = Ok /\ steps' = steps + 1

\* C7: a protocol fee touches only the native leg and no value is lost.  Native
\* input: the pool receives amountIn - fee, the treasury fee, the trader is
\* debited exactly amountIn and receives the quoted amountOut.  Native output:
\* the trader receives amountOut - fee, the treasury fee, the pool pays exactly
\* amountOut and the trader pays exactly amountIn.
C7_FeeOnNativeLegOnly ==
    [][(SwapDone /\ last'.protocol_fee_xnt > 0 /\ last'.reserve_in > 0
                 /\ last'.reserve_out > 0)
        => /\ NativeIsInput =>
                /\ PoolReceived = last'.amount_a - last'.protocol_fee_xnt
                /\ TreasuryReceived = last'.protocol_fee_xnt
                /\ TraderPaid = last'.amount_a
                /\ TraderReceived = last'.output_amount
                /\ PoolPaid = last'.output_amount
           /\ NativeIsOutput =>
                /\ TraderReceived = last'.output_amount - last'.protocol_fee_xnt
                /\ TreasuryReceived = last'.protocol_fee_xnt
                /\ PoolPaid = last'.output_amount
                /\ TraderPaid = last'.amount_a
                /\ PoolReceived = last'.amount_a]_vars

\* the amount of native asset the last swap moved: amountIn when the native asset
\* came in, the amountOut before the fee when it went out
NativeAmount ==
    IF NativeIsInput THEN last'.amount_a
    ELSE IF NativeIsOutput THEN last'.output_amount ELSE 0

FeeSwitchedOff ==
    pool_state.protocol_treasury = DefaultPubkey \/ pool_state.protocol_fee_bps = 0

\* C8: the protocol fee of a swap is floor(nativeAmount * protocol_fee_bps / 10000);
\* it is 0, nothing goes to the treasury and the pool keeps the whole amountIn
\* when the treasury is the zero sentinel or protocol_fee_bps is 0.
C8_ProtocolFeeAmount ==
    [][SwapDone
        => /\ ~FeeSwitchedOff =>
                /\ last'.protocol_fee_xnt =
                       (NativeAmount * pool_state.protocol_fee_bps) \div 10000
                /\ TreasuryReceived \in {0, last'.protocol_fee_xnt}
                /\ last'.op = "swap_native" => TreasuryReceived = last'.protocol_fee_xnt
           /\ FeeSwitchedOff =>
                /\ last'.protocol_fee_xnt = 0
                /\ ~last'.fee_transfer
                /\ TreasuryReceived = 0
                /\ PoolReceived = last'.amount_a
                /\ TraderReceived = last'.output_amount]_vars

\* a swap that paid a protocol fee out of a native output
C8_Witness ==
    /\ last.op \in SwapOps /\ last.res = Ok
    /\ last.protocol_fee_xnt > 0
    /\ last.protocol_fee_xnt = (last.output_amount * pool_state.protocol_fee_bps) \div 10000
    /\ last.final_output_amount = last.output_amount - last.protocol_fee_xnt

Untouched == UNCHANGED <<pool_state, tokenVars, nativeVars>>

\* C9: a successful swap delivers at least minAmountOut to the trader, the
\* comparison being made after the protocol fee is taken off a native output;
\* below it the swap is rejected (NotEnoughOut in swap, SlippageExceeded in
\* swap_native) and nothing changes.
C9_MinAmountOutAfterFee ==
    [][(last'.op \in SwapOps /\ steps' = steps + 1)
        => /\ last'.res = Ok =>
                /\ last'.final_output_amount >= last'.min_out
                /\ TraderReceived >= last'.min_out
                /\ TraderReceived >= last'.final_output_amount
           /\ last'.res \in {"NotEnoughOut", "SlippageExceeded"} =>
                /\ last'.final_output_amount < last'.min_out
                /\ last'.res = (IF last'.op = "swap" THEN "NotEnoughOut"
                                ELSE "SlippageExceeded")
           /\ last'.res # Ok => Untouched]_vars

\* a swap rejected only because of the fee: the output before the fee met the
\* minimum, the output after the fee did not
C9_Witness ==
    /\ last.op \in SwapOps
    /\ last.res \in {"NotEnoughOut", "SlippageExceeded"}
    /\ last.protocol_fee_xnt > 0
    /\ last.output_amount >= last.min_out
    /\ last.final_output_amount < last.min_out

\* C10: a swap_native paying native asset out goes through only if the custody
\* balance less amountOut stays at or above the custody account's own rent
\* minimum, and is rejected with InsufficientRentReserve otherwise; after a
\* successful one the custody balance is at least the floor reconcile uses.
C10_RentReservePreserved ==
    [][(last'.op = "swap_native" /\ ~last'.is_xnt_to_token /\ steps' = steps + 1)
        => /\ last'.res = Ok =>
                /\ pool_pda - last'.output_amount >= rent.pool_pda
                /\ pool_pda' >= rent.pool_pda
           /\ (/\ last'.res \notin {"InvalidInput", "InsufficientLiquidity",
                                    "SlippageExceeded"}
               /\ user_token_account[last'.caller] >= last'.amount_a
               /\ pool_pda - last'.output_amount < rent.pool_pda)
                  => last'.res = "InsufficientRentReserve"
           /\ last'.res = "InsufficientRentReserve" => Untouched]_vars

\* a swap_native turned away because it would have taken the custody account
\* below its rent minimum
C10_Witness ==
    /\ last.op = "swap_native" /\ ~last.is_xnt_to_token
    /\ last.res = "InsufficientRentReserve"
    /\ last.output_amount > 0
    /\ pool_pda - last.output_amount < rent.pool_pda

\* C11: reconcile_native_reserve sets native_reserve to the custody balance less
\* the rent minimum whatever the tracked value was; it fails with
\* InsufficientRentReserve, native_reserve unchanged, exactly when the balance is
\* below the rent minimum, and never because of the size or the sign of the drift.
C11_ReconcileOverwrites ==
    [][(last'.op = "reconcile_native_reserve" /\ steps' = steps + 1)
        => /\ last'.res \in {Ok, "InsufficientRentReserve"}
           /\ (last'.res = "InsufficientRentReserve") = (pool_pda < rent.pool_pda)
           /\ last'.res = "InsufficientRentReserve" => Untouched
           /\ last'.res = Ok =>
                /\ pool_state'.native_reserve = pool_pda - rent.pool_pda
                /\ pool_state' = [pool_state EXCEPT
                                     !.native_reserve = pool_pda - rent.pool_pda]
                /\ UNCHANGED <<tokenVars, nativeVars>>]_vars

\* a reconcile that found the tracked reserve above what the custody account can
\* trade and lowered it
C11_Witness ==
    /\ last.op = "reconcile_native_reserve" /\ last.res = Ok
    /\ last.tracked > pool_state.native_reserve
    /\ pool_state.native_reserve = pool_pda - rent.pool_pda

PoolVaults == {"vault0", "vault1"}

\* an initialized token account of the token program
IsReady(a) ==
    a.owner = TokenProgram /\ a.data_len = TokenAccountLen /\ a.initialized

IsForeign(a) ==
    a.lamports # 0 /\ a.owner # SystemProgram /\ a.owner # TokenProgram

\* the step is a call of initialize_pool that got as far as the handler
PoolCreationAttempt == last'.op = "initialize_pool" /\ ~pool_state_exists

\* C12: vault provisioning on a vault already owned by the expected token program
\* does nothing: no funding transfer, no allocate, no assign, no initialize, no
\* change of the vault, and no error.
C12_ProvisioningIdempotent ==
    [][PoolCreationAttempt
        => /\ \A v \in PoolVaults :
                vault_account[v].owner = TokenProgram
                    => /\ vault_account'[v] = vault_account[v]
                       /\ applied'[v] = applied[v]
           /\ (\A v \in PoolVaults : vault_account[v].owner = TokenProgram)
                => /\ last'.res \in {Ok, "InvalidProtocolFee"}
                   /\ payer_lamports' = payer_lamports]_vars

\* a pool created over two vaults that were initialized token accounts already
C12_Witness ==
    /\ last.op = "initialize_pool" /\ last.res = Ok
    /\ pool_state_exists
    /\ \A v \in PoolVaults : IsReady(vault_account[v])
    /\ applied = NoneApplied
    /\ payer_lamports = PayerFunds

\* C13: from every vault state short of Ready that is not Foreign (funded only,
\* with enough or with too little; funded and allocated; assigned but not
\* initialized), asking for pool creation again eventually brings the vaults to
\* Ready, and the funding transfer and the initialize step are each performed at
\* most once on a vault.
C13_ProvisioningConverges ==
    /\ [](\A v \in PoolVaults : applied[v]["fund"] <= 1 /\ applied[v]["initialize"] <= 1)
    /\ (\A v \in PoolVaults : ~IsForeign(vault_account[v]))
           ~> (\A v \in PoolVaults : IsReady(vault_account[v]))

\* C14: initialize_pool on a vault that holds a balance and is owned by neither
\* the system program nor the expected token program fails with InvalidTreasury
\* on every attempt, and no provisioning step is applied to that vault.
C14_ForeignVaultRejected ==
    [][(PoolCreationAttempt /\ \E v \in PoolVaults : IsForeign(vault_account[v]))
        => /\ last'.res = "InvalidTreasury"
           /\ UNCHANGED <<vault_account, applied, pool_state_exists, pool_state,
                          payer_lamports>>]_vars

\* the step is a call of initialize_native_pool with arguments it accepts
NativePoolCreationAttempt ==
    /\ last'.op = "initialize_native_pool"
    /\ ~pool_state_exists
    /\ last'.res # "InvalidInput"

\* C15: initialize_native_pool provisions token_vault by the same four branches:
\* a funded vault still owned by the system program is allocated, assigned and
\* initialized without being funded again, a vault of the expected token program
\* is left alone, a vault of any other program makes creation fail with
\* InvalidTreasury, and creation never succeeds with the vault short of Ready.
C15_NativeVaultFourBranches ==
    [][NativePoolCreationAttempt
        => LET a == vault_account["token_vault"]
               b == vault_account'["token_vault"]
           IN  /\ (a.lamports >= rent.token_account /\ a.owner = SystemProgram)
                    => /\ last'.res = Ok
                       /\ IsReady(b)
                       /\ b.lamports = a.lamports
                       /\ payer_lamports' = payer_lamports
               /\ a.owner = TokenProgram => (last'.res = Ok /\ b = a)
               /\ IsForeign(a) => last'.res = "InvalidTreasury"
               /\ last'.res = Ok => IsReady(b)]_vars

\* the record lengths the program has written: the three layouts and the
\* account of a native pool
LayoutLens == {32, 66, 76, 80}

\* C16: a PoolState written in the order of the struct's fields (native_reserve
\* patched in at byte offset 68 included) and read back with try_deserialize
\* comes back with the same value in every field its layout holds.
C16_RoundTrip ==
    (codec.loaded.err # "none" /\ codec.space \in LayoutLens) =>
        /\ codec.loaded.err = Ok
        /\ LET p == codec.loaded.v
               q == codec.pool
           IN  /\ p.total_amount_minted = q.total_amount_minted
               /\ p.fee_numerator = q.fee_numerator
               /\ p.fee_denominator = q.fee_denominator
               /\ codec.space >= 66 => /\ p.protocol_treasury = q.protocol_treasury
                                       /\ p.protocol_fee_bps = q.protocol_fee_bps
               /\ codec.space >= 76 => /\ p.is_native_pool = q.is_native_pool
                                       /\ p.native_mint_index = q.native_mint_index
                                       /\ p.native_reserve = q.native_reserve

C18_ShortRecordInvalidAccountData ==
    (codec.loaded.err # "none" /\ Len(codec.data) < MinimumLen) =>
        codec.loaded.err = "InvalidAccountData"

\* the step is a deposit into either kind of pool
DepositStep ==
    /\ steps' = steps + 1
    /\ last'.op \in {"add_liquidity", "add_native_liquidity"}

\* the shares a deposit computes are 0: it passed the checks that come before the
\* computation and the computation itself did not fail
ZeroShareDeposit ==
    /\ DepositStep
    /\ IF last'.op = "add_liquidity"
       THEN LET r == add_liquidity_amounts(last'.amount_a, last'.amount_b,
                                           vault[0], vault[1],
                                           pool_state.total_amount_minted)
            IN  /\ last'.amount_a <= user[last'.caller][0]
                /\ last'.amount_b <= user[last'.caller][1]
                /\ r.err = Ok
                /\ r.amount_to_mint = 0
       ELSE LET r == native_lp_to_mint(last'.amount_a, last'.amount_b,
                                       pool_state.total_amount_minted,
                                       pool_state.native_reserve, token_vault)
            IN  /\ last'.amount_a > 0
                /\ last'.amount_b > 0
                /\ r.err = Ok
                /\ r.v = 0

\* C19: every deposit that succeeds mints more than 0 shares; a deposit whose
\* share amount computes to 0 is rejected with NoPoolMintOutput and takes no
\* assets.
C19_DepositMintsShares ==
    [][/\ (DepositStep /\ last'.res = Ok) => last'.minted > 0
       /\ ZeroShareDeposit => (last'.res = "NoPoolMintOutput" /\ Untouched)]_vars

\* the step is a withdrawal of more shares than the pool, which has minted some,
\* has minted
WithdrawBeyondTotal ==
    /\ steps' = steps + 1
    /\ pool_state.total_amount_minted > 0
    /\ last'.op \in {"remove_liquidity", "remove_native_liquidity"}
    /\ last'.amount_a > pool_state.total_amount_minted

\* C20: a withdrawal (remove_liquidity, remove_native_liquidity) whose burn
\* amount exceeds total_amount_minted is rejected with BurnTooMuch and changes
\* nothing.
C20_BurnTooMuchRejected ==
    [][WithdrawBeyondTotal => (last'.res = "BurnTooMuch" /\ Untouched)]_vars

\* C23: every pool that exists after initialize_pool or initialize_native_pool
\* has fee_denominator > 0, in every reachable state; a creation with
\* fee_denominator = 0 is rejected.
C23_FeeDenominatorPositive ==
    pool_state_exists => pool_state.fee_denominator > 0

\* the step is a pool creation, on a ledger without the pool, that asks for a
\* protocol fee above 10000 basis points and is otherwise well formed
CreationAboveMaxBps ==
    /\ last'.op \in {"initialize_pool", "initialize_native_pool"}
    /\ last' # last
    /\ ~pool_state_exists
    /\ last'.args[2] > 0
    /\ last'.op = "initialize_native_pool" => last'.args[5] <= 1
    /\ last'.args[4] > BpsDenominator

\* C24: protocol_fee_bps of every pool is within 0..10000 in every reachable
\* state; a pool creation (ordinary or native) with protocol_fee_bps above 10000
\* is rejected with InvalidProtocolFee and creates no pool.
C24_ProtocolFeeBpsBounded ==
    [][/\ pool_state'.protocol_fee_bps \in 0..BpsDenominator
       /\ CreationAboveMaxBps => (last'.res = "InvalidProtocolFee"
                                  /\ ~pool_state_exists')]_vars

\* the step is a swap against a pool one of whose reserves is 0
SwapOnEmptyReserve ==
    /\ steps' = steps + 1
    /\ last'.op \in SwapOps
    /\ \/ last'.op = "swap" /\ (vault[0] = 0 \/ vault[1] = 0)
       \/ last'.op = "swap_native" /\ (pool_state.native_reserve = 0 \/ token_vault = 0)

\* C25: a swap (swap or swap_native) against a pool with reserveIn = 0 or
\* reserveOut = 0 is rejected with InsufficientLiquidity and changes nothing.
C25_EmptyReserveRejected ==
    [][SwapOnEmptyReserve => (last'.res = "InsufficientLiquidity" /\ Untouched)]_vars

\* the step is an add_liquidity
TokenDeposit == steps' = steps + 1 /\ last'.op = "add_liquidity"

\* the step took amount d0 of asset 0 and d1 of asset 1 from the caller into the
\* vaults and minted the caller m shares
DepositTook(d0, d1, m) ==
    LET u == last'.caller
    IN  /\ user' = [user EXCEPT ![u][0] = @ - d0, ![u][1] = @ - d1]
        /\ vault' = [vault EXCEPT ![0] = @ + d0, ![1] = @ + d1]
        /\ user_pool_ata' = [user_pool_ata EXCEPT ![u] = @ + m]
        /\ pool_state'.total_amount_minted = pool_state.total_amount_minted + m

\* C26: a deposit into a token-vault pool whose two vaults are both empty mints
\* (amount0 + amount1) >> 1 shares and takes exactly the two requested amounts
\* (100 and 50 mint 75); that branch is taken exactly when both vaults are empty:
\* with a vault that holds something the amount of asset 1 follows the pool's
\* ratio.
C26_FirstDepositMint ==
    [][(TokenDeposit /\ last'.res = Ok) =>
          IF vault[0] = 0 /\ vault[1] = 0
          THEN /\ last'.minted = (last'.amount_a + last'.amount_b) \div 2
               /\ DepositTook(last'.amount_a, last'.amount_b, last'.minted)
          ELSE /\ last'.amount1 = last'.amount_a * (vault[1] \div vault[0])
               /\ last'.minted # (last'.amount_a + last'.amount_b) \div 2
                  \/ last'.amount1 = last'.amount_b]_vars

\* the first deposit of 100 and 50 was made and minted 75
C26_Witness ==
    /\ last.op = "add_liquidity"
    /\ last.res = Ok
    /\ last.amount_a = 100
    /\ last.amount_b = 50
    /\ last.minted = 75
    /\ vault = [m \in Mints |-> IF m = 0 THEN 100 ELSE 50]
    /\ pool_state.total_amount_minted = 75

\* C27: a deposit into a token-vault pool that is not the first takes amount0 of
\* asset 0 and deposit1 = amount0 * floor(vault1 / vault0) of asset 1, is rejected
\* with NotEnoughBalance when deposit1 exceeds the requested amount1 or when a
\* requested amount exceeds the caller's balance, and mints
\* floor(deposit1 * total_amount_minted / vault1) shares.
C27_LaterDepositAmounts ==
    [][(TokenDeposit /\ ~(vault[0] = 0 /\ vault[1] = 0)) =>
          LET u == last'.caller
              deposit1 == last'.amount_a * (vault[1] \div vault[0])
          IN  /\ (last'.amount_a > user[u][0] \/ last'.amount_b > user[u][1]
                  \/ (vault[0] > 0 /\ deposit1 > last'.amount_b))
                    => (last'.res = "NotEnoughBalance" /\ Untouched)
              /\ last'.res = Ok =>
                    /\ vault[0] > 0
                    /\ vault[1] > 0
                    /\ last'.minted = (deposit1 * pool_state.total_amount_minted)
                                          \div vault[1]
                    /\ DepositTook(last'.amount_a, deposit1, last'.minted)]_vars

\* a later deposit was made that took less of asset 1 than the caller offered
C27_Witness ==
    /\ last.op = "add_liquidity"
    /\ last.res = Ok
    /\ last.amount1 < last.amount_b
    /\ last.minted > 0
    /\ pool_state.total_amount_minted > last.minted

\* the step is a withdrawal that succeeded
WithdrawDone ==
    /\ steps' = steps + 1
    /\ last'.op \in {"remove_liquidity", "remove_native_liquidity"}
    /\ last'.res = Ok

\* C28: a successful withdrawal of burnAmount shares pays, for each asset,
\* floor(burnAmount * balance / total_amount_minted), with the vault balances
\* (native side: native_reserve) and the total as they were before, and then
\* lowers total_amount_minted by burnAmount; so each amount is within its balance,
\* and burning all the shares pays out the whole tracked balance.
C28_WithdrawProRata ==
    [][WithdrawDone =>
          LET u == last'.caller
              burn == last'.amount_a
              total == pool_state.total_amount_minted
          IN  /\ pool_state'.total_amount_minted = total - burn
              /\ IF last'.op = "remove_liquidity"
                 THEN /\ last'.amount0 = (burn * vault[0]) \div total
                      /\ last'.amount1 = (burn * vault[1]) \div total
                      /\ last'.amount0 <= vault[0]
                      /\ last'.amount1 <= vault[1]
                      /\ vault' = [vault EXCEPT ![0] = @ - last'.amount0,
                                                ![1] = @ - last'.amount1]
                      /\ user' = [user EXCEPT ![u][0] = @ + last'.amount0,
                                              ![u][1] = @ + last'.amount1]
                      /\ burn = total => vault' = [m \in Mints |-> 0]
                 ELSE /\ last'.amount0 = (burn * pool_state.native_reserve) \div total
                      /\ last'.amount1 = (burn * token_vault) \div total
                      /\ last'.amount0 <= pool_state.native_reserve
                      /\ last'.amount1 <= token_vault
                      /\ pool_state'.native_reserve
                             = pool_state.native_reserve - last'.amount0
                      /\ pool_pda' = pool_pda - last'.amount0
                      /\ token_vault' = token_vault - last'.amount1
                      /\ user_lamports' = [user_lamports EXCEPT ![u] = @ + last'.amount0]
                      /\ user_token_account' =
                             [user_token_account EXCEPT ![u] = @ + last'.amount1]
                      /\ burn = total => (pool_state'.native_reserve = 0
                                          /\ token_vault' = 0)]_vars

\* all the shares of a native pool whose custody account holds more than the
\* tracked reserve were burned, and the whole tracked reserve and the whole vault
\* were paid out
C28_Witness ==
    /\ last.op = "remove_native_liquidity"
    /\ last.res = Ok
    /\ last.amount0 > 0
    /\ last.amount1 > 0
    /\ pool_state.total_amount_minted = 0
    /\ pool_state.native_reserve = 0
    /\ token_vault = 0
    /\ pool_pda > 0

\* the step is an add_native_liquidity, with amounts it accepts, into a native
\* pool that has minted no shares
FirstNativeDeposit ==
    /\ steps' = steps + 1
    /\ last'.op = "add_native_liquidity"
    /\ pool_state.total_amount_minted = 0
    /\ last'.amount_a > 0
    /\ last'.amount_b > 0

\* C29: the first deposit into a native pool mints
\* isqrt(xnt_amount * token_amount) - 1000 shares (10000 and 10000 mint 9000);
\* whenever that result does not meet min_lp_tokens, the case
\* isqrt(xnt_amount * token_amount) < 1000 included, the deposit fails with
\* SlippageExceeded and takes no assets.
C29_FirstNativeDepositMint ==
    [][FirstNativeDeposit =>
          LET root == integer_sqrt(last'.amount_a * last'.amount_b)
          IN  /\ last'.res = Ok => last'.minted = root - MinimumLiquidity
              /\ (root < MinimumLiquidity \/ root - MinimumLiquidity < last'.min_out)
                    => (last'.res = "SlippageExceeded" /\ Untouched)]_vars

\* C22: in every operation (pool creation, add and remove liquidity, swap, and
\* their native variants) every check of the program that can fail is evaluated
\* before the first transfer, mint, burn, provisioning step or pool_state write
\* of that operation: an operation that ends with an error of the program has
\* issued no effect before it.
C22_ChecksBeforeEffects ==
    (last.res \notin {Ok, CpiError}) => last.issued = {}

\* what a statement yields when every operation in it is checked: the exact
\* result when each intermediate fits its type, MathOverflow otherwise
CheckedResult ==
    LET a == arith.args
        Fits(v, modulus) == IF v \in 0..(modulus - 1) THEN Res(Ok, v) ELSE Res("MathOverflow", 0)
    IN  CASE arith.site = "first_deposit_amount_to_mint" ->
                 IF a[1] + a[2] < U64Modulus THEN Res(Ok, (a[1] + a[2]) \div 2)
                 ELSE Res("MathOverflow", 0)
          [] arith.site = "amount_deposit_1" ->
                 IF a[2] = 0 THEN Res("MathOverflow", 0)
                 ELSE Fits(a[1] * (a[3] \div a[2]), U64Modulus)
          [] arith.site = "proportional_amount_to_mint" ->
                 IF a[3] = 0 THEN Res("MathOverflow", 0)
                 ELSE Fits((a[1] * a[2]) \div a[3], U64Modulus)
          [] arith.site = "total_amount_minted_add" -> Fits(a[1] + a[2], U64Modulus)
          [] arith.site = "withdraw_amount" ->
                 IF a[3] = 0 THEN Res("MathOverflow", 0)
                 ELSE Fits((a[1] * a[2]) \div a[3], U64Modulus)
          [] arith.site = "total_amount_minted_sub" -> Fits(a[1] - a[2], U64Modulus)
          [] arith.site = "amount_in_minus_fees" ->
                 IF a[3] = 0 THEN Res("MathOverflow", 0)
                 ELSE Fits(a[1] - (a[1] * a[2]) \div a[3], U128Modulus)
          [] arith.site = "amount_in_with_fee" ->
                 IF a[3] = 0 \/ a[3] < a[2] THEN Res("MathOverflow", 0)
                 ELSE Fits((a[1] * (a[3] - a[2])) \div a[3], U64Modulus)

\* C21: every add, subtract, multiply and divide of the balance and share math
\* yields the exact result or fails with MathOverflow: it never wraps, never
\* truncates and never aborts.
C21_ArithmeticFailsWithMathOverflow ==
    arith.site \notin {"none", "integer_sqrt"} => arith.res = CheckedResult

\* the products of two 64-bit values
Products == {a * b : a \in U64, b \in U64}

Place(e) == CHOOSE i \in 1..Len(last.order) : last.order[i] = e

\* C31: in a successful deposit (add_liquidity and add_native_liquidity) the
\* recorded total of shares is increased before the share mint is requested of
\* the custody service and before the deposit transfers.
C31_TotalUpdatedBeforeMint ==
    (last.op \in {"add_liquidity", "add_native_liquidity"} /\ last.res = Ok) =>
        \A i \in 1..Len(last.order) :
            last.order[i] # "total_amount_minted" => Place("total_amount_minted") < i

\* a holder of the pool's shares has withdrawn from the native pool
NativeWithdrawDone ==
    /\ steps' = steps + 1
    /\ last'.op = "remove_native_liquidity"
    /\ last'.res = Ok
    /\ last'.lp_mint = "pool"

\* C32: the 1000 units withheld from the first native deposit stay locked: no
\* withdrawal by a share holder leaves both the native reserve and the token
\* vault empty.
C32_MinimumLiquidityLocked ==
    [][NativeWithdrawDone => ~(pool_state'.native_reserve = 0 /\ token_vault' = 0)]_vars

\* a native-pool operation called with a token account that is not the pool's vault
ForeignVaultCall ==
    /\ steps' = steps + 1
    /\ last'.op \in {"add_native_liquidity", "swap_native", "remove_native_liquidity"}
    /\ last'.token_vault = "own"

\* C33: add_native_liquidity, swap_native and remove_native_liquidity called with
\* a token account other than the vault created with the pool are rejected and
\* change nothing.
C33_OnlyPoolVaultAccepted ==
    [][ForeignVaultCall => (last'.res # Ok /\ UNCHANGED <<pool_state, tokenVars, nativeVars>>)]_vars

\* remove_native_liquidity called with a mint that is not the pool's share mint
ForeignMintWithdraw ==
    /\ steps' = steps + 1
    /\ last'.op = "remove_native_liquidity"
    /\ last'.lp_mint # "pool"

\* C34: remove_native_liquidity called with a mint and share account that are
\* not the pool's is rejected: it neither reduces the recorded total of shares
\* nor pays out of the reserves.
C34_OnlyPoolSharesRedeem ==
    [][ForeignMintWithdraw =>
           /\ last'.res # Ok
           /\ pool_state'.total_amount_minted = pool_state.total_amount_minted
           /\ pool_pda' = pool_pda
           /\ token_vault' = token_vault]_vars

\* C35: in every successful swap that charges a protocol fee, the fee is credited
\* to an account of the pool's configured protocol_treasury and to no other.
C35_FeeReachesTreasuryOnly ==
    [][(SwapDone /\ last'.fee_transfer /\ last'.protocol_fee_xnt > 0
                 /\ last'.reserve_in > 0 /\ last'.reserve_out > 0)
           => TreasuryReceived = last'.protocol_fee_xnt]_vars

\* an operation of the program has moved native asset into or out of pool_pda
NativeMoveDone ==
    /\ steps' = steps + 1
    /\ last'.res = Ok
    /\ last'.op \in {"add_native_liquidity", "swap_native", "remove_native_liquidity",
                     "recover_stuck_native_xnt"}

\* C36: add_native_liquidity, swap_native, remove_native_liquidity and
\* recover_stuck_native_xnt change native_reserve by exactly the amount by which
\* they change the balance of pool_pda: balance - native_reserve is the same
\* before and after.
C36_NoDriftIntroduced ==
    [][NativeMoveDone =>
           pool_pda' - pool_state'.native_reserve = pool_pda - pool_state.native_reserve]_vars

RecoverCall == steps' = steps + 1 /\ last'.op = "recover_stuck_native_xnt"

\* C37: recover_stuck_native_xnt is rejected with NotNativePool on a pool that
\* is not native and with InvalidInput on a native pool with shares outstanding;
\* when it succeeds it transfers exactly the balance of pool_pda less that
\* account's own rent minimum and leaves every field of the pool state as it was;
\* when it fails nothing changes.
C37_RecoverOnlyUnbackedFunds ==
    [][RecoverCall =>
           /\ ~pool_state.is_native_pool => last'.res = "NotNativePool"
           /\ (pool_state.is_native_pool /\ pool_state.total_amount_minted > 0)
                  => last'.res = "InvalidInput"
           /\ last'.res = Ok =>
                  /\ pool_pda - pool_pda' = pool_pda - rent.pool_pda
                  /\ user_lamports'[last'.caller] - user_lamports[last'.caller]
                         = pool_pda - rent.pool_pda
                  /\ pool_state' = pool_state
           /\ last'.res # Ok => Untouched]_vars

\* a deposit into a pool that has shares outstanding, or a withdrawal that leaves
\* some outstanding
HoldersRemain ==
    /\ steps' = steps + 1
    /\ last'.res = Ok
    /\ \/ /\ last'.op \in {"add_liquidity", "add_native_liquidity"}
          /\ pool_state.total_amount_minted > 0
       \/ /\ last'.op \in {"remove_liquidity", "remove_native_liquidity"}
          /\ pool_state'.total_amount_minted > 0

\* the shares minted by the deposit just before are withdrawn by the same caller
RoundTrip ==
    /\ steps' = steps + 1
    /\ last.res = Ok
    /\ last'.res = Ok
    /\ \/ last.op = "add_liquidity" /\ last'.op = "remove_liquidity"
       \/ last.op = "add_native_liquidity" /\ last'.op = "remove_native_liquidity"
    /\ last'.caller = last.caller
    /\ last'.amount_a = last.minted

\* C38: a successful deposit into a pool with shares outstanding and a successful
\* withdrawal that leaves shares outstanding do not lower the backing per share
\* of either asset (balance after * total before >= balance before * total after,
\* the native side measured by native_reserve), and withdrawing the shares a
\* deposit has just minted returns no more of either asset than was deposited.
C38_NoDilution ==
    [][/\ HoldersRemain =>
              LET before == pool_state.total_amount_minted
                  after == pool_state'.total_amount_minted
              IN  IF last'.op \in {"add_liquidity", "remove_liquidity"}
                  THEN \A m \in Mints : vault'[m] * before >= vault[m] * after
                  ELSE /\ pool_state'.native_reserve * before
                              >= pool_state.native_reserve * after
                       /\ token_vault' * before >= token_vault * after
       /\ RoundTrip => (last'.amount0 <= last.amount0 /\ last'.amount1 <= last.amount1)]_vars

\* C39: on positive reserves a swap computation that succeeds pays out, protocol
\* fee included, strictly less than the output reserve, in the token-vault swap
\* and in swap_native alike
C39_OutputReserveNeverEmptied ==
    (calc.reserve_in > 0 /\ calc.reserve_out > 0) =>
        /\ calc.swap.err = Ok => calc.swap.v < calc.reserve_out
        /\ calc.swap_native.err = Ok => calc.swap_native.v < calc.reserve_out

\* C39, the part of swap_native alone
C39_NativeOutputBelowReserve ==
    (calc.reserve_in > 0 /\ calc.reserve_out > 0 /\ calc.swap_native.err = Ok) =>
        calc.swap_native.v < calc.reserve_out

\* some add_liquidity call with positive amounts within a depositor's balances
\* passes every check and mints shares
SomeDepositMints ==
    \E u \in Users : \E a0 \in 1..user[u][0] : \E a1 \in 1..user[u][1] :
        LET r == add_liquidity_amounts(a0, a1, vault[0], vault[1],
                                       pool_state.total_amount_minted)
        IN  r.err = Ok /\ r.amount_to_mint > 0

\* C40: a token-vault pool with no shares outstanding accepts some deposit,
\* whatever the balances of its vaults: no reachable state with
\* total_amount_minted = 0 rejects every add_liquidity
C40_EmptyPoolBootstrappable ==
    (~pool_state.is_native_pool /\ pool_state.total_amount_minted = 0) => SomeDepositMints

=============================================================================
